---------------------------- MODULE Spec2Model ----------------------------
(***************************************************************************)
(* A model of the item-record normalization pipeline of kcd2_data_extract: *)
(* parse_items (key normalization, alias resolution, category condensing,  *)
(* item filtering, display names), fill_item_properties (type              *)
(* classification) and process_items (stat projection), as orchestrated by *)
(* main.                                                                   *)
(*                                                                         *)
(* Data representation.                                                    *)
(*  - A Python str is its text: the sequence of its code points.  Chr("a") *)
(*    is the code point of a printable ASCII character, Str(<<"a", "b">>)  *)
(*    the text "ab".                                                       *)
(*  - A value read from a JSON file (combined_items, the templates, the    *)
(*    filters, the version) is a Python value: PyStr, PyInt, PyFloat,      *)
(*    PyBool, PyNone, PyList or PyDict, a dict being the sequence of its   *)
(*    entries [k |-> key, val |-> value] in insertion order.               *)
(*  - A dict key of an item is the record [at |-> n, name |-> s]: n        *)
(*    leading '@' characters followed by the name s (s has no leading      *)
(*    '@').  K("Id") is the key "Id", RawK("Id") is the key "@Id".         *)
(*  - After remove_at_signs an item (a Python dict) is a function from     *)
(*    keys to values: a text, NoneValue (Python None), or Opaque(v) for a  *)
(*    Python value v of another type (IntValue(n) for an int).  A list     *)
(*    element that is no mapping is a function of the one key NonDict.     *)
(*  - A category value is tagged: List(items) is a Python list, Dict(m)    *)
(*    is a single mapping (what xmltodict yields for a category that has   *)
(*    exactly one child element), Leaf(v) is any other value.              *)
(*  - An item collection (an insertion-ordered dict) is a sequence of      *)
(*    entries [k |-> category, val |-> value].                             *)
(*  - The outcome of a call is Ok(v), None or Raised.                      *)
(***************************************************************************)
EXTENDS Integers, Sequences, FiniteSets, TLC

VARIABLES
    pc,             \* the position of the run: which call is next / has returned
    arg,            \* the argument(s) of the function under check
    ret,            \* what the function returned
    removed_counts, \* remove_items: the four rejection counters
    combined_items, \* main: the collection handed to parse_items
    text_ui_items,  \* main: the UI-text table handed to parse_items
    data,           \* main: what init_data_json returned, with the items
    parsed_items,   \* main / parse_items: the collection being parsed
    filled_items,   \* main: the result of fill_item_properties
    items_array,    \* main: the result of process_items
    exit_code,      \* main: the return value (-1 while running)
    ran,            \* history: the stages executed so far, in order
    raised          \* history: the stages inside which an exception was raised

vars == << pc, arg, ret, removed_counts, combined_items, text_ui_items, data,
           parsed_items, filled_items, items_array, exit_code, ran, raised >>

mainVars == << combined_items, text_ui_items, data, parsed_items, filled_items,
               items_array, exit_code, ran, raised >>

-----------------------------------------------------------------------------
(* Python str operations on sequences of code points *)

\* The printable ASCII characters from the space (code point 32) to the tilde
\* (126), in order; the backquote (96) cannot be written in a string here and
\* its place is held by a string that is no character.
Printable ==
    << " ", "!", "\"", "#", "$", "%", "&", "'", "(", ")", "*", "+", ",", "-", ".", "/",
       "0", "1", "2", "3", "4", "5", "6", "7", "8", "9", ":", ";", "<", "=", ">", "?",
       "@", "A", "B", "C", "D", "E", "F", "G", "H", "I", "J", "K", "L", "M", "N", "O",
       "P", "Q", "R", "S", "T", "U", "V", "W", "X", "Y", "Z", "[", "\\", "]", "^", "_",
       "backquote", "a", "b", "c", "d", "e", "f", "g", "h", "i", "j", "k", "l", "m", "n", "o",
       "p", "q", "r", "s", "t", "u", "v", "w", "x", "y", "z", "{", "|", "}", "~" >>

\* the code point of a printable ASCII character: ord(ch)
Chr(ch) == 31 + CHOOSE j \in 1..Len(Printable) : Printable[j] = ch

\* a str literal of the code: the text of the characters written one by one
Str(s) == [i \in 1..Len(s) |-> Chr(s[i])]

\* a row <<lo, hi>> of a table of code-point ranges holds c
\* The tables are sorted by their first column.  RowsUpTo is the number of
\* rows that begin at or below c, by bisection: the rows up to lo do, the
\* rows after hi do not.
RECURSIVE RowsUpTo(_, _, _, _)
RowsUpTo(c, table, lo, hi) ==
    IF lo = hi THEN lo
    ELSE LET mid == (lo + hi + 1) \div 2 IN
         IF table[mid][1] <= c THEN RowsUpTo(c, table, mid, hi)
         ELSE RowsUpTo(c, table, lo, mid - 1)

\* the row of a table of disjoint ranges <<lo, hi, ...>> that holds c, or 0
RowOf(c, table) ==
    LET i == RowsUpTo(c, table, 0, Len(table)) IN
    IF i > 0 /\ c <= table[i][2] THEN i ELSE 0

\* the row <<c, ...>> of a table, or 0
RowAt(c, table) ==
    LET i == RowsUpTo(c, table, 0, Len(table)) IN
    IF i > 0 /\ table[i][1] = c THEN i ELSE 0

InRanges(c, table) == RowOf(c, table) # 0

\* a row <<lo, hi, step, delta>> of a case table maps c (to c + delta)
RunHit(c, run) == run[1] <= c /\ c <= run[2] /\ (c - run[1]) % run[3] = 0

\* The case mappings of the Unicode database of the interpreter (Unicode
\* 14.0.0): every code point c of a row <<lo, hi, step, delta>>, lo, lo +
\* step, ..., hi, has the one-character lower (upper) case c + delta.
LowerRuns ==
    << <<65,90,1,32>>, <<192,214,1,32>>, <<216,222,1,32>>, <<256,302,2,1>>, <<306,310,2,1>>,
       <<313,327,2,1>>, <<330,374,2,1>>, <<376,376,1,-121>>, <<377,381,2,1>>, <<385,385,1,210>>,
       <<386,388,2,1>>, <<390,390,1,206>>, <<391,391,1,1>>, <<393,394,1,205>>, <<395,395,1,1>>,
       <<398,398,1,79>>, <<399,399,1,202>>, <<400,400,1,203>>, <<401,401,1,1>>, <<403,403,1,205>>,
       <<404,404,1,207>>, <<406,406,1,211>>, <<407,407,1,209>>, <<408,408,1,1>>, <<412,412,1,211>>,
       <<413,413,1,213>>, <<415,415,1,214>>, <<416,420,2,1>>, <<422,422,1,218>>, <<423,423,1,1>>,
       <<425,425,1,218>>, <<428,428,1,1>>, <<430,430,1,218>>, <<431,431,1,1>>, <<433,434,1,217>>,
       <<435,437,2,1>>, <<439,439,1,219>>, <<440,440,1,1>>, <<444,444,1,1>>, <<452,452,1,2>>,
       <<453,453,1,1>>, <<455,455,1,2>>, <<456,456,1,1>>, <<458,458,1,2>>, <<459,475,2,1>>,
       <<478,494,2,1>>, <<497,497,1,2>>, <<498,500,2,1>>, <<502,502,1,-97>>, <<503,503,1,-56>>,
       <<504,542,2,1>>, <<544,544,1,-130>>, <<546,562,2,1>>, <<570,570,1,10795>>, <<571,571,1,1>>,
       <<573,573,1,-163>>, <<574,574,1,10792>>, <<577,577,1,1>>, <<579,579,1,-195>>, <<580,580,1,69>>,
       <<581,581,1,71>>, <<582,590,2,1>>, <<880,882,2,1>>, <<886,886,1,1>>, <<895,895,1,116>>,
       <<902,902,1,38>>, <<904,906,1,37>>, <<908,908,1,64>>, <<910,911,1,63>>, <<913,929,1,32>>,
       <<931,939,1,32>>, <<975,975,1,8>>, <<984,1006,2,1>>, <<1012,1012,1,-60>>, <<1015,1015,1,1>>,
       <<1017,1017,1,-7>>, <<1018,1018,1,1>>, <<1021,1023,1,-130>>, <<1024,1039,1,80>>, <<1040,1071,1,32>>,
       <<1120,1152,2,1>>, <<1162,1214,2,1>>, <<1216,1216,1,15>>, <<1217,1229,2,1>>, <<1232,1326,2,1>>,
       <<1329,1366,1,48>>, <<4256,4293,1,7264>>, <<4295,4295,1,7264>>, <<4301,4301,1,7264>>, <<5024,5103,1,38864>>,
       <<5104,5109,1,8>>, <<7312,7354,1,-3008>>, <<7357,7359,1,-3008>>, <<7680,7828,2,1>>, <<7838,7838,1,-7615>>,
       <<7840,7934,2,1>>, <<7944,7951,1,-8>>, <<7960,7965,1,-8>>, <<7976,7983,1,-8>>, <<7992,7999,1,-8>>,
       <<8008,8013,1,-8>>, <<8025,8031,2,-8>>, <<8040,8047,1,-8>>, <<8072,8079,1,-8>>, <<8088,8095,1,-8>>,
       <<8104,8111,1,-8>>, <<8120,8121,1,-8>>, <<8122,8123,1,-74>>, <<8124,8124,1,-9>>, <<8136,8139,1,-86>>,
       <<8140,8140,1,-9>>, <<8152,8153,1,-8>>, <<8154,8155,1,-100>>, <<8168,8169,1,-8>>, <<8170,8171,1,-112>>,
       <<8172,8172,1,-7>>, <<8184,8185,1,-128>>, <<8186,8187,1,-126>>, <<8188,8188,1,-9>>, <<8486,8486,1,-7517>>,
       <<8490,8490,1,-8383>>, <<8491,8491,1,-8262>>, <<8498,8498,1,28>>, <<8544,8559,1,16>>, <<8579,8579,1,1>>,
       <<9398,9423,1,26>>, <<11264,11311,1,48>>, <<11360,11360,1,1>>, <<11362,11362,1,-10743>>, <<11363,11363,1,-3814>>,
       <<11364,11364,1,-10727>>, <<11367,11371,2,1>>, <<11373,11373,1,-10780>>, <<11374,11374,1,-10749>>, <<11375,11375,1,-10783>>,
       <<11376,11376,1,-10782>>, <<11378,11378,1,1>>, <<11381,11381,1,1>>, <<11390,11391,1,-10815>>, <<11392,11490,2,1>>,
       <<11499,11501,2,1>>, <<11506,11506,1,1>>, <<42560,42604,2,1>>, <<42624,42650,2,1>>, <<42786,42798,2,1>>,
       <<42802,42862,2,1>>, <<42873,42875,2,1>>, <<42877,42877,1,-35332>>, <<42878,42886,2,1>>, <<42891,42891,1,1>>,
       <<42893,42893,1,-42280>>, <<42896,42898,2,1>>, <<42902,42920,2,1>>, <<42922,42922,1,-42308>>, <<42923,42923,1,-42319>>,
       <<42924,42924,1,-42315>>, <<42925,42925,1,-42305>>, <<42926,42926,1,-42308>>, <<42928,42928,1,-42258>>, <<42929,42929,1,-42282>>,
       <<42930,42930,1,-42261>>, <<42931,42931,1,928>>, <<42932,42946,2,1>>, <<42948,42948,1,-48>>, <<42949,42949,1,-42307>>,
       <<42950,42950,1,-35384>>, <<42951,42953,2,1>>, <<42960,42960,1,1>>, <<42966,42968,2,1>>, <<42997,42997,1,1>>,
       <<65313,65338,1,32>>, <<66560,66599,1,40>>, <<66736,66771,1,40>>, <<66928,66938,1,39>>, <<66940,66954,1,39>>,
       <<66956,66962,1,39>>, <<66964,66965,1,39>>, <<68736,68786,1,64>>, <<71840,71871,1,32>>, <<93760,93791,1,32>>,
       <<125184,125217,1,34>> >>

\* the code points whose lower case has more than one character
LowerSpecial ==
    << <<304, <<105,775>> >> >>

UpperRuns ==
    << <<97,122,1,-32>>, <<181,181,1,743>>, <<224,246,1,-32>>, <<248,254,1,-32>>, <<255,255,1,121>>,
       <<257,303,2,-1>>, <<305,305,1,-232>>, <<307,311,2,-1>>, <<314,328,2,-1>>, <<331,375,2,-1>>,
       <<378,382,2,-1>>, <<383,383,1,-300>>, <<384,384,1,195>>, <<387,389,2,-1>>, <<392,392,1,-1>>,
       <<396,396,1,-1>>, <<402,402,1,-1>>, <<405,405,1,97>>, <<409,409,1,-1>>, <<410,410,1,163>>,
       <<414,414,1,130>>, <<417,421,2,-1>>, <<424,424,1,-1>>, <<429,429,1,-1>>, <<432,432,1,-1>>,
       <<436,438,2,-1>>, <<441,441,1,-1>>, <<445,445,1,-1>>, <<447,447,1,56>>, <<453,453,1,-1>>,
       <<454,454,1,-2>>, <<456,456,1,-1>>, <<457,457,1,-2>>, <<459,459,1,-1>>, <<460,460,1,-2>>,
       <<462,476,2,-1>>, <<477,477,1,-79>>, <<479,495,2,-1>>, <<498,498,1,-1>>, <<499,499,1,-2>>,
       <<501,501,1,-1>>, <<505,543,2,-1>>, <<547,563,2,-1>>, <<572,572,1,-1>>, <<575,576,1,10815>>,
       <<578,578,1,-1>>, <<583,591,2,-1>>, <<592,592,1,10783>>, <<593,593,1,10780>>, <<594,594,1,10782>>,
       <<595,595,1,-210>>, <<596,596,1,-206>>, <<598,599,1,-205>>, <<601,601,1,-202>>, <<603,603,1,-203>>,
       <<604,604,1,42319>>, <<608,608,1,-205>>, <<609,609,1,42315>>, <<611,611,1,-207>>, <<613,613,1,42280>>,
       <<614,614,1,42308>>, <<616,616,1,-209>>, <<617,617,1,-211>>, <<618,618,1,42308>>, <<619,619,1,10743>>,
       <<620,620,1,42305>>, <<623,623,1,-211>>, <<625,625,1,10749>>, <<626,626,1,-213>>, <<629,629,1,-214>>,
       <<637,637,1,10727>>, <<640,640,1,-218>>, <<642,642,1,42307>>, <<643,643,1,-218>>, <<647,647,1,42282>>,
       <<648,648,1,-218>>, <<649,649,1,-69>>, <<650,651,1,-217>>, <<652,652,1,-71>>, <<658,658,1,-219>>,
       <<669,669,1,42261>>, <<670,670,1,42258>>, <<837,837,1,84>>, <<881,883,2,-1>>, <<887,887,1,-1>>,
       <<891,893,1,130>>, <<940,940,1,-38>>, <<941,943,1,-37>>, <<945,961,1,-32>>, <<962,962,1,-31>>,
       <<963,971,1,-32>>, <<972,972,1,-64>>, <<973,974,1,-63>>, <<976,976,1,-62>>, <<977,977,1,-57>>,
       <<981,981,1,-47>>, <<982,982,1,-54>>, <<983,983,1,-8>>, <<985,1007,2,-1>>, <<1008,1008,1,-86>>,
       <<1009,1009,1,-80>>, <<1010,1010,1,7>>, <<1011,1011,1,-116>>, <<1013,1013,1,-96>>, <<1016,1016,1,-1>>,
       <<1019,1019,1,-1>>, <<1072,1103,1,-32>>, <<1104,1119,1,-80>>, <<1121,1153,2,-1>>, <<1163,1215,2,-1>>,
       <<1218,1230,2,-1>>, <<1231,1231,1,-15>>, <<1233,1327,2,-1>>, <<1377,1414,1,-48>>, <<4304,4346,1,3008>>,
       <<4349,4351,1,3008>>, <<5112,5117,1,-8>>, <<7296,7296,1,-6254>>, <<7297,7297,1,-6253>>, <<7298,7298,1,-6244>>,
       <<7299,7300,1,-6242>>, <<7301,7301,1,-6243>>, <<7302,7302,1,-6236>>, <<7303,7303,1,-6181>>, <<7304,7304,1,35266>>,
       <<7545,7545,1,35332>>, <<7549,7549,1,3814>>, <<7566,7566,1,35384>>, <<7681,7829,2,-1>>, <<7835,7835,1,-59>>,
       <<7841,7935,2,-1>>, <<7936,7943,1,8>>, <<7952,7957,1,8>>, <<7968,7975,1,8>>, <<7984,7991,1,8>>,
       <<8000,8005,1,8>>, <<8017,8023,2,8>>, <<8032,8039,1,8>>, <<8048,8049,1,74>>, <<8050,8053,1,86>>,
       <<8054,8055,1,100>>, <<8056,8057,1,128>>, <<8058,8059,1,112>>, <<8060,8061,1,126>>, <<8112,8113,1,8>>,
       <<8126,8126,1,-7205>>, <<8144,8145,1,8>>, <<8160,8161,1,8>>, <<8165,8165,1,7>>, <<8526,8526,1,-28>>,
       <<8560,8575,1,-16>>, <<8580,8580,1,-1>>, <<9424,9449,1,-26>>, <<11312,11359,1,-48>>, <<11361,11361,1,-1>>,
       <<11365,11365,1,-10795>>, <<11366,11366,1,-10792>>, <<11368,11372,2,-1>>, <<11379,11379,1,-1>>, <<11382,11382,1,-1>>,
       <<11393,11491,2,-1>>, <<11500,11502,2,-1>>, <<11507,11507,1,-1>>, <<11520,11557,1,-7264>>, <<11559,11559,1,-7264>>,
       <<11565,11565,1,-7264>>, <<42561,42605,2,-1>>, <<42625,42651,2,-1>>, <<42787,42799,2,-1>>, <<42803,42863,2,-1>>,
       <<42874,42876,2,-1>>, <<42879,42887,2,-1>>, <<42892,42892,1,-1>>, <<42897,42899,2,-1>>, <<42900,42900,1,48>>,
       <<42903,42921,2,-1>>, <<42933,42947,2,-1>>, <<42952,42954,2,-1>>, <<42961,42961,1,-1>>, <<42967,42969,2,-1>>,
       <<42998,42998,1,-1>>, <<43859,43859,1,-928>>, <<43888,43967,1,-38864>>, <<65345,65370,1,-32>>, <<66600,66639,1,-40>>,
       <<66776,66811,1,-40>>, <<66967,66977,1,-39>>, <<66979,66993,1,-39>>, <<66995,67001,1,-39>>, <<67003,67004,1,-39>>,
       <<68800,68850,1,-64>>, <<71872,71903,1,-32>>, <<93792,93823,1,-32>>, <<125218,125251,1,-34>> >>

\* the code points whose upper case has more than one character
UpperSpecial ==
    << <<223, <<83,83>> >>, <<329, <<700,78>> >>, <<496, <<74,780>> >>, <<912, <<921,776,769>> >>,
       <<944, <<933,776,769>> >>, <<1415, <<1333,1362>> >>, <<7830, <<72,817>> >>, <<7831, <<84,776>> >>,
       <<7832, <<87,778>> >>, <<7833, <<89,778>> >>, <<7834, <<65,702>> >>, <<8016, <<933,787>> >>,
       <<8018, <<933,787,768>> >>, <<8020, <<933,787,769>> >>, <<8022, <<933,787,834>> >>, <<8064, <<7944,921>> >>,
       <<8065, <<7945,921>> >>, <<8066, <<7946,921>> >>, <<8067, <<7947,921>> >>, <<8068, <<7948,921>> >>,
       <<8069, <<7949,921>> >>, <<8070, <<7950,921>> >>, <<8071, <<7951,921>> >>, <<8072, <<7944,921>> >>,
       <<8073, <<7945,921>> >>, <<8074, <<7946,921>> >>, <<8075, <<7947,921>> >>, <<8076, <<7948,921>> >>,
       <<8077, <<7949,921>> >>, <<8078, <<7950,921>> >>, <<8079, <<7951,921>> >>, <<8080, <<7976,921>> >>,
       <<8081, <<7977,921>> >>, <<8082, <<7978,921>> >>, <<8083, <<7979,921>> >>, <<8084, <<7980,921>> >>,
       <<8085, <<7981,921>> >>, <<8086, <<7982,921>> >>, <<8087, <<7983,921>> >>, <<8088, <<7976,921>> >>,
       <<8089, <<7977,921>> >>, <<8090, <<7978,921>> >>, <<8091, <<7979,921>> >>, <<8092, <<7980,921>> >>,
       <<8093, <<7981,921>> >>, <<8094, <<7982,921>> >>, <<8095, <<7983,921>> >>, <<8096, <<8040,921>> >>,
       <<8097, <<8041,921>> >>, <<8098, <<8042,921>> >>, <<8099, <<8043,921>> >>, <<8100, <<8044,921>> >>,
       <<8101, <<8045,921>> >>, <<8102, <<8046,921>> >>, <<8103, <<8047,921>> >>, <<8104, <<8040,921>> >>,
       <<8105, <<8041,921>> >>, <<8106, <<8042,921>> >>, <<8107, <<8043,921>> >>, <<8108, <<8044,921>> >>,
       <<8109, <<8045,921>> >>, <<8110, <<8046,921>> >>, <<8111, <<8047,921>> >>, <<8114, <<8122,921>> >>,
       <<8115, <<913,921>> >>, <<8116, <<902,921>> >>, <<8118, <<913,834>> >>, <<8119, <<913,834,921>> >>,
       <<8124, <<913,921>> >>, <<8130, <<8138,921>> >>, <<8131, <<919,921>> >>, <<8132, <<905,921>> >>,
       <<8134, <<919,834>> >>, <<8135, <<919,834,921>> >>, <<8140, <<919,921>> >>, <<8146, <<921,776,768>> >>,
       <<8147, <<921,776,769>> >>, <<8150, <<921,834>> >>, <<8151, <<921,776,834>> >>, <<8162, <<933,776,768>> >>,
       <<8163, <<933,776,769>> >>, <<8164, <<929,787>> >>, <<8166, <<933,834>> >>, <<8167, <<933,776,834>> >>,
       <<8178, <<8186,921>> >>, <<8179, <<937,921>> >>, <<8180, <<911,921>> >>, <<8182, <<937,834>> >>,
       <<8183, <<937,834,921>> >>, <<8188, <<937,921>> >>, <<64256, <<70,70>> >>, <<64257, <<70,73>> >>,
       <<64258, <<70,76>> >>, <<64259, <<70,70,73>> >>, <<64260, <<70,70,76>> >>, <<64261, <<83,84>> >>,
       <<64262, <<83,84>> >>, <<64275, <<1348,1350>> >>, <<64276, <<1348,1333>> >>, <<64277, <<1348,1339>> >>,
       <<64278, <<1358,1350>> >>, <<64279, <<1348,1341>> >> >>

\* The characters that str.lower() skips when it looks for the cased letter
\* next to a capital sigma (property Case_Ignorable), as ranges <<lo, hi>>.
CaseIgnorable ==
    << <<39,39>>, <<46,46>>, <<58,58>>, <<94,94>>, <<96,96>>, <<168,168>>,
       <<173,173>>, <<175,175>>, <<180,180>>, <<183,184>>, <<688,879>>, <<884,885>>,
       <<890,890>>, <<900,901>>, <<903,903>>, <<1155,1161>>, <<1369,1369>>, <<1375,1375>>,
       <<1425,1469>>, <<1471,1471>>, <<1473,1474>>, <<1476,1477>>, <<1479,1479>>, <<1524,1524>>,
       <<1536,1541>>, <<1552,1562>>, <<1564,1564>>, <<1600,1600>>, <<1611,1631>>, <<1648,1648>>,
       <<1750,1757>>, <<1759,1768>>, <<1770,1773>>, <<1807,1807>>, <<1809,1809>>, <<1840,1866>>,
       <<1958,1968>>, <<2027,2037>>, <<2042,2042>>, <<2045,2045>>, <<2070,2093>>, <<2137,2139>>,
       <<2184,2184>>, <<2192,2193>>, <<2200,2207>>, <<2249,2306>>, <<2362,2362>>, <<2364,2364>>,
       <<2369,2376>>, <<2381,2381>>, <<2385,2391>>, <<2402,2403>>, <<2417,2417>>, <<2433,2433>>,
       <<2492,2492>>, <<2497,2500>>, <<2509,2509>>, <<2530,2531>>, <<2558,2558>>, <<2561,2562>>,
       <<2620,2620>>, <<2625,2626>>, <<2631,2632>>, <<2635,2637>>, <<2641,2641>>, <<2672,2673>>,
       <<2677,2677>>, <<2689,2690>>, <<2748,2748>>, <<2753,2757>>, <<2759,2760>>, <<2765,2765>>,
       <<2786,2787>>, <<2810,2815>>, <<2817,2817>>, <<2876,2876>>, <<2879,2879>>, <<2881,2884>>,
       <<2893,2893>>, <<2901,2902>>, <<2914,2915>>, <<2946,2946>>, <<3008,3008>>, <<3021,3021>>,
       <<3072,3072>>, <<3076,3076>>, <<3132,3132>>, <<3134,3136>>, <<3142,3144>>, <<3146,3149>>,
       <<3157,3158>>, <<3170,3171>>, <<3201,3201>>, <<3260,3260>>, <<3263,3263>>, <<3270,3270>>,
       <<3276,3277>>, <<3298,3299>>, <<3328,3329>>, <<3387,3388>>, <<3393,3396>>, <<3405,3405>>,
       <<3426,3427>>, <<3457,3457>>, <<3530,3530>>, <<3538,3540>>, <<3542,3542>>, <<3633,3633>>,
       <<3636,3642>>, <<3654,3662>>, <<3761,3761>>, <<3764,3772>>, <<3782,3782>>, <<3784,3789>>,
       <<3864,3865>>, <<3893,3893>>, <<3895,3895>>, <<3897,3897>>, <<3953,3966>>, <<3968,3972>>,
       <<3974,3975>>, <<3981,3991>>, <<3993,4028>>, <<4038,4038>>, <<4141,4144>>, <<4146,4151>>,
       <<4153,4154>>, <<4157,4158>>, <<4184,4185>>, <<4190,4192>>, <<4209,4212>>, <<4226,4226>>,
       <<4229,4230>>, <<4237,4237>>, <<4253,4253>>, <<4348,4348>>, <<4957,4959>>, <<5906,5908>>,
       <<5938,5939>>, <<5970,5971>>, <<6002,6003>>, <<6068,6069>>, <<6071,6077>>, <<6086,6086>>,
       <<6089,6099>>, <<6103,6103>>, <<6109,6109>>, <<6155,6159>>, <<6211,6211>>, <<6277,6278>>,
       <<6313,6313>>, <<6432,6434>>, <<6439,6440>>, <<6450,6450>>, <<6457,6459>>, <<6679,6680>>,
       <<6683,6683>>, <<6742,6742>>, <<6744,6750>>, <<6752,6752>>, <<6754,6754>>, <<6757,6764>>,
       <<6771,6780>>, <<6783,6783>>, <<6823,6823>>, <<6832,6862>>, <<6912,6915>>, <<6964,6964>>,
       <<6966,6970>>, <<6972,6972>>, <<6978,6978>>, <<7019,7027>>, <<7040,7041>>, <<7074,7077>>,
       <<7080,7081>>, <<7083,7085>>, <<7142,7142>>, <<7144,7145>>, <<7149,7149>>, <<7151,7153>>,
       <<7212,7219>>, <<7222,7223>>, <<7288,7293>>, <<7376,7378>>, <<7380,7392>>, <<7394,7400>>,
       <<7405,7405>>, <<7412,7412>>, <<7416,7417>>, <<7468,7530>>, <<7544,7544>>, <<7579,7679>>,
       <<8125,8125>>, <<8127,8129>>, <<8141,8143>>, <<8157,8159>>, <<8173,8175>>, <<8189,8190>>,
       <<8203,8207>>, <<8216,8217>>, <<8228,8228>>, <<8231,8231>>, <<8234,8238>>, <<8288,8292>>,
       <<8294,8303>>, <<8305,8305>>, <<8319,8319>>, <<8336,8348>>, <<8400,8432>>, <<11388,11389>>,
       <<11503,11505>>, <<11631,11631>>, <<11647,11647>>, <<11744,11775>>, <<11823,11823>>, <<12293,12293>>,
       <<12330,12333>>, <<12337,12341>>, <<12347,12347>>, <<12441,12446>>, <<12540,12542>>, <<40981,40981>>,
       <<42232,42237>>, <<42508,42508>>, <<42607,42610>>, <<42612,42621>>, <<42623,42623>>, <<42652,42655>>,
       <<42736,42737>>, <<42752,42785>>, <<42864,42864>>, <<42888,42890>>, <<42994,42996>>, <<43000,43001>>,
       <<43010,43010>>, <<43014,43014>>, <<43019,43019>>, <<43045,43046>>, <<43052,43052>>, <<43204,43205>>,
       <<43232,43249>>, <<43263,43263>>, <<43302,43309>>, <<43335,43345>>, <<43392,43394>>, <<43443,43443>>,
       <<43446,43449>>, <<43452,43453>>, <<43471,43471>>, <<43493,43494>>, <<43561,43566>>, <<43569,43570>>,
       <<43573,43574>>, <<43587,43587>>, <<43596,43596>>, <<43632,43632>>, <<43644,43644>>, <<43696,43696>>,
       <<43698,43700>>, <<43703,43704>>, <<43710,43711>>, <<43713,43713>>, <<43741,43741>>, <<43756,43757>>,
       <<43763,43764>>, <<43766,43766>>, <<43867,43871>>, <<43881,43883>>, <<44005,44005>>, <<44008,44008>>,
       <<44013,44013>>, <<64286,64286>>, <<64434,64450>>, <<65024,65039>>, <<65043,65043>>, <<65056,65071>>,
       <<65106,65106>>, <<65109,65109>>, <<65279,65279>>, <<65287,65287>>, <<65294,65294>>, <<65306,65306>>,
       <<65342,65342>>, <<65344,65344>>, <<65392,65392>>, <<65438,65439>>, <<65507,65507>>, <<65529,65531>>,
       <<66045,66045>>, <<66272,66272>>, <<66422,66426>>, <<67456,67461>>, <<67463,67504>>, <<67506,67514>>,
       <<68097,68099>>, <<68101,68102>>, <<68108,68111>>, <<68152,68154>>, <<68159,68159>>, <<68325,68326>>,
       <<68900,68903>>, <<69291,69292>>, <<69446,69456>>, <<69506,69509>>, <<69633,69633>>, <<69688,69702>>,
       <<69744,69744>>, <<69747,69748>>, <<69759,69761>>, <<69811,69814>>, <<69817,69818>>, <<69821,69821>>,
       <<69826,69826>>, <<69837,69837>>, <<69888,69890>>, <<69927,69931>>, <<69933,69940>>, <<70003,70003>>,
       <<70016,70017>>, <<70070,70078>>, <<70089,70092>>, <<70095,70095>>, <<70191,70193>>, <<70196,70196>>,
       <<70198,70199>>, <<70206,70206>>, <<70367,70367>>, <<70371,70378>>, <<70400,70401>>, <<70459,70460>>,
       <<70464,70464>>, <<70502,70508>>, <<70512,70516>>, <<70712,70719>>, <<70722,70724>>, <<70726,70726>>,
       <<70750,70750>>, <<70835,70840>>, <<70842,70842>>, <<70847,70848>>, <<70850,70851>>, <<71090,71093>>,
       <<71100,71101>>, <<71103,71104>>, <<71132,71133>>, <<71219,71226>>, <<71229,71229>>, <<71231,71232>>,
       <<71339,71339>>, <<71341,71341>>, <<71344,71349>>, <<71351,71351>>, <<71453,71455>>, <<71458,71461>>,
       <<71463,71467>>, <<71727,71735>>, <<71737,71738>>, <<71995,71996>>, <<71998,71998>>, <<72003,72003>>,
       <<72148,72151>>, <<72154,72155>>, <<72160,72160>>, <<72193,72202>>, <<72243,72248>>, <<72251,72254>>,
       <<72263,72263>>, <<72273,72278>>, <<72281,72283>>, <<72330,72342>>, <<72344,72345>>, <<72752,72758>>,
       <<72760,72765>>, <<72767,72767>>, <<72850,72871>>, <<72874,72880>>, <<72882,72883>>, <<72885,72886>>,
       <<73009,73014>>, <<73018,73018>>, <<73020,73021>>, <<73023,73029>>, <<73031,73031>>, <<73104,73105>>,
       <<73109,73109>>, <<73111,73111>>, <<73459,73460>>, <<78896,78904>>, <<92912,92916>>, <<92976,92982>>,
       <<92992,92995>>, <<94031,94031>>, <<94095,94111>>, <<94176,94177>>, <<94179,94180>>, <<110576,110579>>,
       <<110581,110587>>, <<110589,110590>>, <<113821,113822>>, <<113824,113827>>, <<118528,118573>>, <<118576,118598>>,
       <<119143,119145>>, <<119155,119170>>, <<119173,119179>>, <<119210,119213>>, <<119362,119364>>, <<121344,121398>>,
       <<121403,121452>>, <<121461,121461>>, <<121476,121476>>, <<121499,121503>>, <<121505,121519>>, <<122880,122886>>,
       <<122888,122904>>, <<122907,122913>>, <<122915,122916>>, <<122918,122922>>, <<123184,123197>>, <<123566,123566>>,
       <<123628,123631>>, <<125136,125142>>, <<125252,125259>>, <<127995,127999>>, <<917505,917505>>, <<917536,917631>>,
       <<917760,917999>> >>

\* The cased characters (property Cased) among those that are not
\* case-ignorable, as ranges <<lo, hi>>.
Cased ==
    << <<65,90>>, <<97,122>>, <<170,170>>, <<181,181>>, <<186,186>>, <<192,214>>,
       <<216,246>>, <<248,442>>, <<444,447>>, <<452,659>>, <<661,687>>, <<880,883>>,
       <<886,887>>, <<891,893>>, <<895,895>>, <<902,902>>, <<904,906>>, <<908,908>>,
       <<910,929>>, <<931,1013>>, <<1015,1153>>, <<1162,1327>>, <<1329,1366>>, <<1376,1416>>,
       <<4256,4293>>, <<4295,4295>>, <<4301,4301>>, <<4304,4346>>, <<4349,4351>>, <<5024,5109>>,
       <<5112,5117>>, <<7296,7304>>, <<7312,7354>>, <<7357,7359>>, <<7424,7467>>, <<7531,7543>>,
       <<7545,7578>>, <<7680,7957>>, <<7960,7965>>, <<7968,8005>>, <<8008,8013>>, <<8016,8023>>,
       <<8025,8025>>, <<8027,8027>>, <<8029,8029>>, <<8031,8061>>, <<8064,8116>>, <<8118,8124>>,
       <<8126,8126>>, <<8130,8132>>, <<8134,8140>>, <<8144,8147>>, <<8150,8155>>, <<8160,8172>>,
       <<8178,8180>>, <<8182,8188>>, <<8450,8450>>, <<8455,8455>>, <<8458,8467>>, <<8469,8469>>,
       <<8473,8477>>, <<8484,8484>>, <<8486,8486>>, <<8488,8488>>, <<8490,8493>>, <<8495,8500>>,
       <<8505,8505>>, <<8508,8511>>, <<8517,8521>>, <<8526,8526>>, <<8544,8575>>, <<8579,8580>>,
       <<9398,9449>>, <<11264,11387>>, <<11390,11492>>, <<11499,11502>>, <<11506,11507>>, <<11520,11557>>,
       <<11559,11559>>, <<11565,11565>>, <<42560,42605>>, <<42624,42651>>, <<42786,42863>>, <<42865,42887>>,
       <<42891,42894>>, <<42896,42954>>, <<42960,42961>>, <<42963,42963>>, <<42965,42969>>, <<42997,42998>>,
       <<43002,43002>>, <<43824,43866>>, <<43872,43880>>, <<43888,43967>>, <<64256,64262>>, <<64275,64279>>,
       <<65313,65338>>, <<65345,65370>>, <<66560,66639>>, <<66736,66771>>, <<66776,66811>>, <<66928,66938>>,
       <<66940,66954>>, <<66956,66962>>, <<66964,66965>>, <<66967,66977>>, <<66979,66993>>, <<66995,67001>>,
       <<67003,67004>>, <<68736,68786>>, <<68800,68850>>, <<71840,71903>>, <<93760,93823>>, <<119808,119892>>,
       <<119894,119964>>, <<119966,119967>>, <<119970,119970>>, <<119973,119974>>, <<119977,119980>>, <<119982,119993>>,
       <<119995,119995>>, <<119997,120003>>, <<120005,120069>>, <<120071,120074>>, <<120077,120084>>, <<120086,120092>>,
       <<120094,120121>>, <<120123,120126>>, <<120128,120132>>, <<120134,120134>>, <<120138,120144>>, <<120146,120485>>,
       <<120488,120512>>, <<120514,120538>>, <<120540,120570>>, <<120572,120596>>, <<120598,120628>>, <<120630,120654>>,
       <<120656,120686>>, <<120688,120712>>, <<120714,120744>>, <<120746,120770>>, <<120772,120779>>, <<122624,122633>>,
       <<122635,122654>>, <<125184,125251>>, <<127280,127305>>, <<127312,127337>>, <<127344,127369>> >>

\* str.lower() of a one-character str
LowerChar(c) ==
    LET special == RowAt(c, LowerSpecial)
        run == RowOf(c, LowerRuns)
    IN IF special # 0 THEN LowerSpecial[special][2]
       ELSE IF run # 0 /\ RunHit(c, LowerRuns[run]) THEN << c + LowerRuns[run][4] >>
       ELSE << c >>

\* str.upper() of a one-character str
UpperChar(c) ==
    LET special == RowAt(c, UpperSpecial)
        run == RowOf(c, UpperRuns)
    IN IF special # 0 THEN UpperSpecial[special][2]
       ELSE IF run # 0 /\ RunHit(c, UpperRuns[run]) THEN << c + UpperRuns[run][4] >>
       ELSE << c >>

\* The capital sigma at position i of s is final: the nearest character
\* before it that is not case-ignorable exists and is cased, and the nearest
\* one after it, if any, is not cased.
FinalSigma(s, i) ==
    LET before == {j \in 1..(i - 1) : ~InRanges(s[j], CaseIgnorable)}
        after == {j \in (i + 1)..Len(s) : ~InRanges(s[j], CaseIgnorable)}
    IN  /\ before # {}
        /\ InRanges(s[CHOOSE j \in before : \A j2 \in before : j2 <= j], Cased)
        /\ \/ after = {}
           \/ ~InRanges(s[CHOOSE j \in after : \A j2 \in after : j <= j2], Cased)

RECURSIVE LowerFrom(_, _)
LowerFrom(s, i) ==
    IF i > Len(s) THEN << >>
    ELSE (IF s[i] = 931
          THEN << IF FinalSigma(s, i) THEN 962 ELSE 963 >>
          ELSE LowerChar(s[i])) \o LowerFrom(s, i + 1)

\* str.lower(): character by character, but for the capital sigma (931),
\* which becomes the final small sigma (962) where it ends a word
Lower(s) == LowerFrom(s, 1)

\* str.upper()
RECURSIVE Upper(_)
Upper(s) == IF s = << >> THEN << >> ELSE UpperChar(Head(s)) \o Upper(Tail(s))

\* s.startswith(p)
StartsWith(s, p) == Len(p) <= Len(s) /\ SubSeq(s, 1, Len(p)) = p

\* p in s
Contains(s, p) ==
    \E i \in 1..(Len(s) - Len(p) + 1) : SubSeq(s, i, i + Len(p) - 1) = p

-----------------------------------------------------------------------------
(* Python values *)

(* A float is [kind, neg, m, e]: kind "fin" is the value (-1)^neg * m * 2^e *)
(* with 2^52 <= m < 2^53 (m < 2^52 at e = -1074, the subnormal values; m    *)
(* and e are 0 for zero), "inf" an infinity of that sign, "nan" not a       *)
(* number; m is a natural held as a sequence of limbs.  An int is an        *)
(* integer of the model, below 2^31 in magnitude.                           *)

Fin(neg, m, e) == [kind |-> "fin", neg |-> neg, m |-> m, e |-> e]

Zero(neg) == Fin(neg, << >>, 0)

Inf(neg) == [kind |-> "inf", neg |-> neg, m |-> << >>, e |-> 0]

NaN == [kind |-> "nan", neg |-> FALSE, m |-> << >>, e |-> 0]

(* A value whose type the code depends on is [t, s, n, x, b, items, map]:   *)
(* t is the type, "str" with s the characters, "int" with n the integer,    *)
(* "float" with x the float, "bool" with b the truth value, "NoneType",     *)
(* "list" with items the elements, "dict" with map the entries             *)
(* [k |-> key, val |-> value] in insertion order; the fields of the other   *)
(* types are s = << >>, n = 0, x = nan, b = FALSE, items = << >> and        *)
(* map = << >>.  Such are the values read from a JSON file, combined_items  *)
(* among them, and the arguments of the numeric helpers.                    *)

PyStr(s) == [t |-> "str", s |-> s, n |-> 0, x |-> NaN, b |-> FALSE, items |-> << >>, map |-> << >>]

PyInt(n) == [t |-> "int", s |-> << >>, n |-> n, x |-> NaN, b |-> FALSE, items |-> << >>, map |-> << >>]

PyFloat(x) == [t |-> "float", s |-> << >>, n |-> 0, x |-> x, b |-> FALSE, items |-> << >>, map |-> << >>]

PyBool(b) == [t |-> "bool", s |-> << >>, n |-> 0, x |-> NaN, b |-> b, items |-> << >>, map |-> << >>]

PyNone == [t |-> "NoneType", s |-> << >>, n |-> 0, x |-> NaN, b |-> FALSE, items |-> << >>, map |-> << >>]

PyList(items) == [t |-> "list", s |-> << >>, n |-> 0, x |-> NaN, b |-> FALSE, items |-> items, map |-> << >>]

PyDict(map) == [t |-> "dict", s |-> << >>, n |-> 0, x |-> NaN, b |-> FALSE, items |-> << >>, map |-> map]

\* len(value) raises TypeError: the value is None, a number or a bool
NoLen(value) == value.t \in {"NoneType", "int", "float", "bool"}

\* the decimal digits of the natural n, the most significant first
RECURSIVE DecimalDigits(_)
DecimalDigits(n) ==
    IF n < 10 THEN << 48 + n >> ELSE Append(DecimalDigits(n \div 10), 48 + (n % 10))

\* str(n) of an int
StrOfInt(n) == IF n < 0 THEN << 45 >> \o DecimalDigits(0 - n) ELSE DecimalDigits(n)

-----------------------------------------------------------------------------
(* Numbers.  A Python float is an IEEE 754 binary64 value; its arithmetic   *)
(* rounds every exact result to 53 significant bits, ties to even.  The     *)
(* exact results are computed on naturals of any size, held as sequences of *)
(* limbs, least significant first, the last limb not 0 (<< >> is 0).        *)

Limb == 2^15

\* drop the most significant limbs that are 0
RECURSIVE BigNorm(_)
BigNorm(a) ==
    IF a = << >> THEN a
    ELSE IF a[Len(a)] = 0 THEN BigNorm(SubSeq(a, 1, Len(a) - 1))
    ELSE a

\* the natural n < 2^31 as limbs
BigOf(n) == BigNorm(<< n % Limb, (n \div Limb) % Limb, n \div (Limb * Limb) >>)

\* limb i of a, 0 beyond its length
LimbAt(a, i) == IF i >= 1 /\ i <= Len(a) THEN a[i] ELSE 0

\* a + b: limbs from position i on, with the carry into position i
RECURSIVE BigAddFrom(_, _, _, _)
BigAddFrom(a, b, i, carry) ==
    IF i > Len(a) /\ i > Len(b)
    THEN IF carry = 0 THEN << >> ELSE << carry >>
    ELSE << (LimbAt(a, i) + LimbAt(b, i) + carry) % Limb >>
             \o BigAddFrom(a, b, i + 1, (LimbAt(a, i) + LimbAt(b, i) + carry) \div Limb)

BigAdd(a, b) == BigAddFrom(a, b, 1, 0)

\* a - b for a >= b: limbs from position i on, with the borrow from position i
RECURSIVE BigSubFrom(_, _, _, _)
BigSubFrom(a, b, i, borrow) ==
    IF i > Len(a) THEN << >>
    ELSE LET d == LimbAt(a, i) - LimbAt(b, i) - borrow IN
         << IF d < 0 THEN d + Limb ELSE d >>
             \o BigSubFrom(a, b, i + 1, IF d < 0 THEN 1 ELSE 0)

BigSub(a, b) == BigNorm(BigSubFrom(a, b, 1, 0))

\* a < b
BigLess(a, b) ==
    \/ Len(a) < Len(b)
    \/ /\ Len(a) = Len(b)
       /\ \E i \in 1..Len(a) :
             /\ a[i] < b[i]
             /\ \A j \in (i + 1)..Len(a) : a[j] = b[j]

\* a * d for 0 <= d < Limb: limbs lo..hi of the product and the carry out of
\* limb hi, with the carry into limb lo; the lower half of the limbs first
RECURSIVE BigMulSmallFrom(_, _, _, _, _)
BigMulSmallFrom(a, d, lo, hi, carry) ==
    IF lo > hi THEN [p |-> << >>, c |-> carry]
    ELSE IF lo = hi
    THEN [p |-> << (a[lo] * d + carry) % Limb >>, c |-> (a[lo] * d + carry) \div Limb]
    ELSE LET mid == (lo + hi) \div 2
             low == BigMulSmallFrom(a, d, lo, mid, carry)
             top == BigMulSmallFrom(a, d, mid + 1, hi, low.c)
         IN [p |-> low.p \o top.p, c |-> top.c]

BigMulSmall(a, d) ==
    LET res == BigMulSmallFrom(a, d, 1, Len(a), 0) IN BigNorm(Append(res.p, res.c))

\* a moved up by n limbs
BigShiftLimbs(a, n) == IF a = << >> THEN a ELSE [i \in 1..n |-> 0] \o a

\* a * b: the sum of a * b[i] moved up by i - 1 limbs, from limb i of b on
RECURSIVE BigMulFrom(_, _, _)
BigMulFrom(a, b, i) ==
    IF i > Len(b) THEN << >>
    ELSE BigAdd(BigShiftLimbs(BigMulSmall(a, b[i]), i - 1), BigMulFrom(a, b, i + 1))

BigMul(a, b) == BigMulFrom(a, b, 1)

\* a divided by d, 0 < d < Limb: limbs hi..lo of the quotient, the most
\* significant first, and the remainder below limb lo, rem being the
\* remainder of the limbs above hi; the upper half of the limbs first
RECURSIVE BigDivSmallFrom(_, _, _, _, _)
BigDivSmallFrom(a, d, lo, hi, rem) ==
    IF lo > hi THEN [q |-> << >>, r |-> rem]
    ELSE IF lo = hi
    THEN [q |-> << (rem * Limb + a[lo]) \div d >>, r |-> (rem * Limb + a[lo]) % d]
    ELSE LET mid == (lo + hi) \div 2
             top == BigDivSmallFrom(a, d, mid + 1, hi, rem)
             low == BigDivSmallFrom(a, d, lo, mid, top.r)
         IN [q |-> top.q \o low.q, r |-> low.r]

\* [q |-> a div d, r |-> a mod d]
BigDivSmall(a, d) ==
    LET n == Len(a)
        res == BigDivSmallFrom(a, d, 1, n, 0)
    IN [q |-> BigNorm(SubSeq([i \in 1..n |-> res.q[n + 1 - i]], 1, n)), r |-> res.r]

\* the number of bits of n < Limb
RECURSIVE SmallBitLen(_)
SmallBitLen(n) == IF n = 0 THEN 0 ELSE 1 + SmallBitLen(n \div 2)

\* the number of bits of a
BigBitLen(a) == IF a = << >> THEN 0 ELSE 15 * (Len(a) - 1) + SmallBitLen(a[Len(a)])

\* a * 2^k
BigShl(a, k) == BigShiftLimbs(BigMulSmall(a, 2^(k % 15)), k \div 15)

\* a div 2^k
BigShr(a, k) ==
    BigDivSmall(SubSeq(a, (k \div 15) + 1, Len(a)), 2^(k % 15)).q

\* a mod 2^k is not 0
BigLowBits(a, k) ==
    \/ \E i \in 1..(k \div 15) : LimbAt(a, i) # 0
    \/ LimbAt(a, (k \div 15) + 1) % 2^(k % 15) # 0

\* bit k of a (bit 0 is the least significant)
BigBit(a, k) == (LimbAt(a, (k \div 15) + 1) \div 2^(k % 15)) % 2

\* the value of a that is less than 2^31
RECURSIVE BigToInt(_)
BigToInt(a) == IF a = << >> THEN 0 ELSE a[1] + Limb * BigToInt(Tail(a))


-----------------------------------------------------------------------------
(* Rounding to a float *)

\* the least exponent of a binary64 significand of 53 bits
MinExp == 0 - 1074

\* the float of a significand rounded to at most 53 bits: 2^53 is renormalised,
\* a value of 2^1024 or more is an infinity
Pack(neg, m, e) ==
    LET len == BigBitLen(m) IN
    IF m = << >> THEN Zero(neg)
    ELSE IF len = 54
    THEN IF e + 1 + 53 > 1024 THEN Inf(neg) ELSE Fin(neg, BigShr(m, 1), e + 1)
    ELSE IF e + len > 1024 THEN Inf(neg)
    ELSE Fin(neg, m, e)

\* the float nearest to (-1)^neg * (n + d) * 2^e, ties to the even significand,
\* where 0 <= d < 1 and sticky tells that d > 0 (n then has 55 bits or more)
RoundToDouble(neg, n, e, sticky) ==
    LET len == BigBitLen(n)
        te == IF e + len - 53 < MinExp THEN MinExp ELSE e + len - 53
        shift == te - e
        q == BigShr(n, shift)
        half == BigBit(n, shift - 1) = 1
        rest == sticky \/ BigLowBits(n, shift - 1)
        up == half /\ (rest \/ LimbAt(q, 1) % 2 = 1)
    IN IF n = << >> THEN Zero(neg)
       ELSE Pack(neg,
                 IF shift <= 0 THEN BigShl(n, 0 - shift)
                 ELSE IF up THEN BigAdd(q, << 1 >>) ELSE q,
                 te)

\* float(n) of an int
FloatOfInt(n) == RoundToDouble(n < 0, BigOf(IF n < 0 THEN 0 - n ELSE n), 0, FALSE)

-----------------------------------------------------------------------------
(* The records the steps after remove_at_signs work on *)

\* The key of an entry: n leading '@' characters followed by the text name
K(n) == [at |-> 0, name |-> n]

RawK(n) == [at |-> 1, name |-> n]

\* key in item
Has(d, n) == K(n) \in DOMAIN d

\* item[key]
Get(d, n) == d[K(n)]

\* item[key] = value
Put(d, n, v) == [k \in DOMAIN d \cup {K(n)} |-> IF k = K(n) THEN v ELSE d[k]]

EmptyMap == [k \in {} |-> k]

\* The value of an attribute is a text, None, or a value of another type.
\* Python None: a sequence no text equals, its one element is not a code point
NoneValue == << -1 >>

\* a mapping, a list, a number or a bool as the value of an attribute
Opaque(value) == << -2, value >>

\* an int, as the ids of the taxonomy are
IntValue(n) == Opaque(PyInt(n))

\* isinstance(value, str)
IsStr(value) == value = << >> \/ value[1] >= 0

\* hash(value) raises TypeError: the value is a mapping or a list
Unhashable(value) ==
    /\ ~IsStr(value)
    /\ value # NoneValue
    /\ value[2].t \in {"dict", "list"}

\* the value of an attribute of a record as a Python value
PyValue(v) ==
    IF IsStr(v) THEN PyStr(v)
    ELSE IF v = NoneValue THEN PyNone
    ELSE v[2]

\* An element of a category list that is no mapping is a record of the one
\* key NonDict, which no mapping has
NonDict == [at |-> -1, name |-> ""]

\* isinstance(item, dict)
IsDict(item) == NonDict \notin DOMAIN item

\* str(value) == text
StrEquals(value, text) ==
    IF IsStr(value) THEN value = text
    ELSE IF value = NoneValue THEN text = << 78, 111, 110, 101 >>
    ELSE value[2].t = "int" /\ StrOfInt(value[2].n) = text

\* item.pop(key)
Del(d, n) == [k \in DOMAIN d \ {K(n)} |-> d[k]]

\* A category value: a list of records, a single record, or a value that is
\* neither a list nor a mapping (a str as its text, None as NoneValue)
List(items) == [list |-> TRUE, leaf |-> FALSE, items |-> items, map |-> EmptyMap, v |-> << >>]

Dict(m) == [list |-> FALSE, leaf |-> FALSE, items |-> << >>, map |-> m, v |-> << >>]

Leaf(v) == [list |-> FALSE, leaf |-> TRUE, items |-> << >>, map |-> EmptyMap, v |-> v]

\* the outcome of a call: Ok(v) returned v, None returned None, Raised let an
\* exception escape
Ok(v) == [exc |-> FALSE, none |-> FALSE, v |-> v]

None == [exc |-> FALSE, none |-> TRUE, v |-> << >>]

Raised == [exc |-> TRUE, none |-> FALSE, v |-> << >>]

\* what follows a step: follow applied to the outcome of the step, which is
\* computed once
Then(outcome, follow(_)) == CHOOSE result \in { follow(o) : o \in {outcome} } : TRUE

\* category in collection
HasCat(c, k) == \E i \in 1..Len(c) : c[i].k = k

CatIdx(c, k) == CHOOSE i \in 1..Len(c) : c[i].k = k

\* collection[category]
GetCat(c, k) == c[CatIdx(c, k)].val

\* collection[category] = value: in place when the key exists, appended otherwise
SetCat(c, k, val) ==
    IF HasCat(c, k)
    THEN [c EXCEPT ![CatIdx(c, k)] = [k |-> k, val |-> val]]
    ELSE Append(c, [k |-> k, val |-> val])

\* del collection[category]
DelCat(c, k) == SelectSeq(c, LAMBDA e : e.k # k)

\* collection.get(category, [])
GetCatOrEmpty(c, k) == IF HasCat(c, k) THEN GetCat(c, k) ELSE List(<< >>)

-----------------------------------------------------------------------------
(* constants/categories.py *)

\* a list of filter strings
Filters(texts) == PyList([i \in 1..Len(texts) |-> PyStr(texts[i])])

ITEM_CATEGORIES ==
    << [id |-> -1, name |-> Str(<<"u","n","d","e","f","i","n","e","d">>), iconCategory |-> -1],
       [id |-> 0, name |-> Str(<<"h","e","a","d">>), iconCategory |-> -1],
       [id |-> 1, name |-> Str(<<"j","e","w","e","l","r","y">>), iconCategory |-> -1],
       [id |-> 2, name |-> Str(<<"d","a","g","g","e","r">>), iconCategory |-> -1],
       [id |-> 3, name |-> Str(<<"b","e","l","t">>), iconCategory |-> -1],
       [id |-> 4, name |-> Str(<<"t","o","r","s","o">>), iconCategory |-> -1],
       [id |-> 5, name |-> Str(<<"h","a","n","d","s">>), iconCategory |-> -1],
       [id |-> 6, name |-> Str(<<"l","e","g","s">>), iconCategory |-> -1],
       [id |-> 7, name |-> Str(<<"p","o","u","c","h">>), iconCategory |-> -1],
       [id |-> 8, name |-> Str(<<"h","o","r","s","e">>), iconCategory |-> -1],
       [id |-> 9, name |-> Str(<<"m","e","l","e","e">>), iconCategory |-> -1],
       [id |-> 10, name |-> Str(<<"r","a","n","g","e","d">>), iconCategory |-> -1],
       [id |-> 11, name |-> Str(<<"s","h","i","e","l","d">>), iconCategory |-> -1],
       [id |-> 12, name |-> Str(<<"d","i","e">>), iconCategory |-> -1],
       [id |-> 13, name |-> Str(<<"d","i","c","e","B","a","d","g","e">>), iconCategory |-> -1] >>

UI_SLOTS ==
    << [id |-> -1, name |-> Str(<<"u","n","d","e","f","i","n","e","d">>), uiCategory |-> -1],
       [id |-> 0, name |-> Str(<<"c","a","p">>), uiCategory |-> 0],
       [id |-> 1, name |-> Str(<<"c","o","i","f">>), uiCategory |-> 0],
       [id |-> 2, name |-> Str(<<"h","o","o","d">>), uiCategory |-> 0],
       [id |-> 3, name |-> Str(<<"c","o","l","l","a","r">>), uiCategory |-> 0],
       [id |-> 4, name |-> Str(<<"r","i","n","g">>), uiCategory |-> 1],
       [id |-> 5, name |-> Str(<<"n","e","c","k","l","a","c","e">>), uiCategory |-> 1],
       [id |-> 6, name |-> Str(<<"d","a","g","g","e","r">>), uiCategory |-> 2],
       [id |-> 7, name |-> Str(<<"b","e","l","t">>), uiCategory |-> 3],
       [id |-> 8, name |-> Str(<<"p","l","a","t","e">>), uiCategory |-> 4],
       [id |-> 9, name |-> Str(<<"c","o","a","t">>), uiCategory |-> 4],
       [id |-> 10, name |-> Str(<<"c","l","o","t","h">>), uiCategory |-> 4],
       [id |-> 11, name |-> Str(<<"c","h","a","i","n","m","a","i","l">>), uiCategory |-> 4],
       [id |-> 12, name |-> Str(<<"g","l","o","v","e","s">>), uiCategory |-> 5],
       [id |-> 13, name |-> Str(<<"s","l","e","e","v","e","s">>), uiCategory |-> 5],
       [id |-> 14, name |-> Str(<<"t","r","o","u","s","e","r","s">>), uiCategory |-> 6],
       [id |-> 15, name |-> Str(<<"l","e","g","A","r","m","o","r">>), uiCategory |-> 6],
       [id |-> 16, name |-> Str(<<"b","o","o","t">>), uiCategory |-> 6],
       [id |-> 17, name |-> Str(<<"s","p","u","r">>), uiCategory |-> 6],
       [id |-> 18, name |-> Str(<<"p","o","u","c","h">>), uiCategory |-> 7],
       [id |-> 19, name |-> Str(<<"h","o","r","s","e","H","e","a","d">>), uiCategory |-> 8],
       [id |-> 20, name |-> Str(<<"h","o","r","s","e","T","o","r","s","o">>), uiCategory |-> 8],
       [id |-> 21, name |-> Str(<<"h","o","r","s","e","S","a","d","d","l","e">>), uiCategory |-> 8],
       [id |-> 22, name |-> Str(<<"h","o","r","s","e","s","h","o","e">>), uiCategory |-> 8],
       [id |-> 23, name |-> Str(<<"w","e","a","p","o","n","M","e","l","e","e">>), uiCategory |-> 9],
       [id |-> 24, name |-> Str(<<"w","e","a","p","o","n","R","a","n","g","e","d">>), uiCategory |-> 10],
       [id |-> 25, name |-> Str(<<"s","h","i","e","l","d">>), uiCategory |-> 11] >>

ARMOR_TYPES ==
    << [id |-> -1, name |-> Str(<<"u","n","d","e","f","i","n","e","d">>), uiSlot |-> -1,
        filters |-> Filters(<<  >>)],
       [id |-> 0, name |-> Str(<<"h","e","a","d","C","a","p">>), uiSlot |-> 0,
        filters |-> Filters(<< Str(<<"C","a","p">>),
                       Str(<<"F","_","H","o","o","d">>),
                       Str(<<"F","_","B","o","n","n","e","t">>),
                       Str(<<"F","_","C","a","p","A","n","d","W","i","m","p","l","e">>),
                       Str(<<"F","_","H","a","t">>),
                       Str(<<"F","_","H","o","o","d","O","p","e","n">>),
                       Str(<<"F","_","V","e","i","l">>),
                       Str(<<"F","_","V","e","i","l","A","n","d","W","i","m","p","l","e">>),
                       Str(<<"L","e","a","t","h","e","r","C","a","p">>) >>)],
       [id |-> 1, name |-> Str(<<"h","e","a","d","H","e","l","m","e","t">>), uiSlot |-> 0,
        filters |-> Filters(<< Str(<<"K","e","t","t","l","e","H","a","t">>),
                       Str(<<"S","k","u","l","l","C","a","p">>),
                       Str(<<"B","a","s","c","i","n","e","t","O","p","e","n">>),
                       Str(<<"B","a","s","c","i","n","e","t","V","i","s","o","r">>) >>)],
       [id |-> 2, name |-> Str(<<"h","e","a","d","C","o","i","f">>), uiSlot |-> 1,
        filters |-> Filters(<< Str(<<"C","o","i","f","C","a","p">>) >>)],
       [id |-> 3, name |-> Str(<<"h","e","a","d","C","o","i","f","P","a","d","d","e","d">>), uiSlot |-> 1,
        filters |-> Filters(<< Str(<<"C","o","i","f","S","m","a","l","l">>),
                       Str(<<"C","o","i","f","L","a","r","g","e">>),
                       Str(<<"C","o","i","f","M","a","i","l">>) >>)],
       [id |-> 4, name |-> Str(<<"h","e","a","d","H","o","o","d">>), uiSlot |-> 2,
        filters |-> Filters(<< Str(<<"H","o","o","d">>) >>)],
       [id |-> 5, name |-> Str(<<"c","o","l","l","a","r">>), uiSlot |-> 3,
        filters |-> Filters(<< Str(<<"C","o","l","l","a","r">>) >>)],
       [id |-> 6, name |-> Str(<<"r","i","n","g">>), uiSlot |-> 4,
        filters |-> Filters(<< Str(<<"R","i","n","g">>) >>)],
       [id |-> 7, name |-> Str(<<"n","e","c","k","l","a","c","e">>), uiSlot |-> 5,
        filters |-> Filters(<< Str(<<"N","e","c","k","l","a","c","e">>) >>)],
       [id |-> 8, name |-> Str(<<"b","e","l","t">>), uiSlot |-> 7,
        filters |-> Filters(<< Str(<<"B","e","l","t">>) >>)],
       [id |-> 9, name |-> Str(<<"b","o","d","y","P","l","a","t","e">>), uiSlot |-> 8,
        filters |-> Filters(<< Str(<<"B","r","i","g","a","n","d","i","n","e">>),
                       Str(<<"C","u","i","r","a","s","s">>) >>)],
       [id |-> 10, name |-> Str(<<"b","o","d","y","C","o","a","t">>), uiSlot |-> 9,
        filters |-> Filters(<< Str(<<"C","o","a","t">>) >>)],
       [id |-> 11, name |-> Str(<<"b","o","d","y","C","l","o","t","h">>), uiSlot |-> 10,
        filters |-> Filters(<< Str(<<"T","u","n","i","c","S","h","o","r","t">>),
                       Str(<<"T","u","n","i","c","L","o","n","g">>),
                       Str(<<"F","_","S","i","m","p","l","e","D","r","e","s","s">>),
                       Str(<<"F","_","S","m","o","c","k">>),
                       Str(<<"L","e","a","t","h","e","r","A","p","r","o","n">>) >>)],
       [id |-> 12, name |-> Str(<<"b","o","d","y","C","l","o","t","h","P","a","d","d","e","d">>), uiSlot |-> 10,
        filters |-> Filters(<< Str(<<"G","a","m","b","e","s","o","n","S","h","o","r","t">>),
                       Str(<<"G","a","m","b","e","s","o","n","L","o","n","g">>),
                       Str(<<"C","a","f","t","a","n">>),
                       Str(<<"P","o","u","r","p","o","i","n","t">>) >>)],
       [id |-> 13, name |-> Str(<<"b","o","d","y","C","h","a","i","n","m","a","i","l">>), uiSlot |-> 11,
        filters |-> Filters(<< Str(<<"M","a","i","l","S","h","o","r","t">>),
                       Str(<<"M","a","i","l","L","o","n","g">>) >>)],
       [id |-> 14, name |-> Str(<<"g","l","o","v","e","s">>), uiSlot |-> 12,
        filters |-> Filters(<< Str(<<"G","l","o","v","e","s">>) >>)],
       [id |-> 15, name |-> Str(<<"s","l","e","e","v","e","s">>), uiSlot |-> 13,
        filters |-> Filters(<< Str(<<"A","r","m","B","r","i","g","a","n","d","i","n","e">>),
                       Str(<<"A","r","m","P","l","a","t","e">>) >>)],
       [id |-> 16, name |-> Str(<<"l","e","g","T","r","o","u","s","e","r","s">>), uiSlot |-> 14,
        filters |-> Filters(<< Str(<<"H","o","s","e","J","o","i","n","e","d">>),
                       Str(<<"H","o","s","e","L","o","o","s","e">>),
                       Str(<<"H","o","s","e","S","e","p","a","r","a","t","e">>) >>)],
       [id |-> 17, name |-> Str(<<"l","e","g","T","r","o","u","s","e","r","s","P","a","d","d","e","d">>), uiSlot |-> 14,
        filters |-> Filters(<< Str(<<"L","e","g","s","P","a","d","d","e","d">>),
                       Str(<<"L","e","g","s","C","h","a","i","n">>) >>)],
       [id |-> 18, name |-> Str(<<"l","e","g","A","r","m","o","r">>), uiSlot |-> 15,
        filters |-> Filters(<< Str(<<"L","e","g","s","B","r","i","g","a","n","d","i","n","e">>),
                       Str(<<"L","e","g","s","P","l","a","t","e">>) >>)],
       [id |-> 19, name |-> Str(<<"b","o","o","t">>), uiSlot |-> 16,
        filters |-> Filters(<< Str(<<"B","o","o","t">>) >>)],
       [id |-> 20, name |-> Str(<<"s","p","u","r">>), uiSlot |-> 17,
        filters |-> Filters(<< Str(<<"S","p","u","r","s">>) >>)],
       [id |-> 21, name |-> Str(<<"p","o","u","c","h">>), uiSlot |-> 18,
        filters |-> Filters(<< Str(<<"P","o","u","c","h">>) >>)],
       [id |-> 22, name |-> Str(<<"h","o","r","s","e","H","e","a","d">>), uiSlot |-> 19,
        filters |-> Filters(<< Str(<<"B","r","i","d","l","e">>),
                       Str(<<"C","h","a","n","f","r","o","n">>) >>)],
       [id |-> 23, name |-> Str(<<"h","o","r","s","e","T","o","r","s","o">>), uiSlot |-> 20,
        filters |-> Filters(<< Str(<<"C","a","p","a","r","i","s","o","n">>),
                       Str(<<"H","a","r","n","e","s","s">>) >>)],
       [id |-> 24, name |-> Str(<<"h","o","r","s","e","S","a","d","d","l","e">>), uiSlot |-> 21,
        filters |-> Filters(<< Str(<<"S","a","d","d","l","e">>) >>)],
       [id |-> 25, name |-> Str(<<"h","o","r","s","e","S","h","o","e">>), uiSlot |-> 22,
        filters |-> Filters(<< Str(<<"H","o","r","s","e","S","h","o","e">>) >>)] >>

WEAPON_TYPES ==
    << [id |-> -1, name |-> Str(<<"u","n","d","e","f","i","n","e","d">>), uiSlot |-> -1],
       [id |-> 0, name |-> Str(<<"d","a","g","g","e","r">>), uiSlot |-> 6],
       [id |-> 1, name |-> Str(<<"s","w","o","r","d">>), uiSlot |-> 23],
       [id |-> 2, name |-> Str(<<"s","a","b","r","e">>), uiSlot |-> 23],
       [id |-> 3, name |-> Str(<<"a","x","e">>), uiSlot |-> 23],
       [id |-> 4, name |-> Str(<<"l","o","n","g","s","w","o","r","d">>), uiSlot |-> 23],
       [id |-> 5, name |-> Str(<<"m","a","c","e">>), uiSlot |-> 23],
       [id |-> 6, name |-> Str(<<"f","l","a","i","l">>), uiSlot |-> 23],
       [id |-> 7, name |-> Str(<<"h","a","l","b","e","r","d">>), uiSlot |-> 23],
       [id |-> 8, name |-> Str(<<"s","h","i","e","l","d">>), uiSlot |-> 25],
       [id |-> 9, name |-> Str(<<"b","o","w">>), uiSlot |-> 24],
       [id |-> 10, name |-> Str(<<"c","r","o","s","s","b","o","w","L","i","g","h","t">>), uiSlot |-> 24],
       [id |-> 11, name |-> Str(<<"t","o","r","c","h">>), uiSlot |-> -1],
       [id |-> 12, name |-> Str(<<"u","n","a","r","m","e","d">>), uiSlot |-> -1],
       [id |-> 13, name |-> Str(<<"r","i","f","l","e">>), uiSlot |-> 24],
       [id |-> 14, name |-> Str(<<"c","r","o","s","s","b","o","w","M","e","d","i","u","m">>), uiSlot |-> 24],
       [id |-> 15, name |-> Str(<<"c","r","o","s","s","b","o","w","H","e","a","v","y">>), uiSlot |-> 24],
       [id |-> 16, name |-> Str(<<"h","u","n","t","i","n","g","S","w","o","r","d">>), uiSlot |-> 23],
       [id |-> 17, name |-> Str(<<"s","h","i","e","l","d","B","r","o","k","e","n">>), uiSlot |-> -1] >>

DICE_BADGE_TYPES ==
    << [id |-> -1, name |-> Str(<<"u","n","d","e","f","i","n","e","d">>)],
       [id |-> 0, name |-> Str(<<"p","l","u","m","b">>)],
       [id |-> 1, name |-> Str(<<"s","i","l","v","e","r">>)],
       [id |-> 2, name |-> Str(<<"g","o","l","d">>)] >>

DICE_BADGE_SUBTYPES ==
    << [id |-> 0, name |-> Str(<<"H","e","a","d","s","t","a","r","t">>)],
       [id |-> 1, name |-> Str(<<"F","o","r","m","a","t","i","o","n","s">>)],
       [id |-> 2, name |-> Str(<<"N","u","l","l">>)],
       [id |-> 3, name |-> Str(<<"E","x","t","r","a","V","a","l","u","e">>)],
       [id |-> 4, name |-> Str(<<"A","n","t","i","b","u","s","t">>)],
       [id |-> 5, name |-> Str(<<"D","o","u","b","l","e","T","a","k","e">>)],
       [id |-> 6, name |-> Str(<<"M","u","l","t","i","p","l","i","e","r">>)],
       [id |-> 7, name |-> Str(<<"E","x","t","r","a","D","i","c","e">>)],
       [id |-> 8, name |-> Str(<<"R","e","r","o","l","l","D","i","c","e">>)],
       [id |-> 9, name |-> Str(<<"S","e","t","D","i","c","e">>)],
       [id |-> 10, name |-> Str(<<"R","e","r","o","l","l","P","i","p","s">>)] >>

-----------------------------------------------------------------------------
(* scripts/s02_init_data_json.py.  What read_json gives for a file is None   *)
(* (the file is missing, is not JSON or is not an object) or Ok(m), m the    *)
(* entries of the object.  The keys of filters.json, which the code looks up *)
(* by the name of an armor type, are texts; the other keys are strings.      *)

\* an object as a function of its keys
AsMap(entries) ==
    [k \in {entries[i].k : i \in 1..Len(entries)} |-> GetCat(entries, k)]

\* the taxonomy tables assigned to data: what init_data_json returns for the
\* template {"diceBadges": {}} when there is no filters.json and no
\* version.json, with categories as the item categories
DataOf(categories) ==
    [categories |-> categories,
     uiSlots |-> UI_SLOTS,
     weaponTypes |-> WEAPON_TYPES,
     armorTypes |-> ARMOR_TYPES,
     diceBadges |-> [types |-> DICE_BADGE_TYPES, subtypes |-> DICE_BADGE_SUBTYPES]]

\* "if not filters: ... else: for armor_type in data.get("armorTypes", [])":
\* an armor type named in filters.json takes its filters from it, whatever
\* the value is
ArmorTypesWith(filters) ==
    IF filters.none THEN ARMOR_TYPES
    ELSE [i \in 1..Len(ARMOR_TYPES) |->
            IF HasCat(filters.v, ARMOR_TYPES[i].name)
            THEN [ARMOR_TYPES[i] EXCEPT !.filters = GetCat(filters.v, ARMOR_TYPES[i].name)]
            ELSE ARMOR_TYPES[i]]

\* len(armor_type['filters']) in the debug message raises TypeError for a
\* value that has no length
FiltersRaise(filters) ==
    /\ ~filters.none
    /\ \E i \in 1..Len(ARMOR_TYPES) :
           /\ HasCat(filters.v, ARMOR_TYPES[i].name)
           /\ NoLen(GetCat(filters.v, ARMOR_TYPES[i].name))

\* "if version_data and "latest" in version_data"
HasLatest(version_data) ==
    ~version_data.none /\ HasCat(version_data.v, "latest")

\* latest_data.get(key, {}).get("Name", "")
NameIn(latest_data, key) ==
    IF ~HasCat(latest_data.map, key) THEN PyStr(<< >>)
    ELSE IF HasCat(GetCat(latest_data.map, key).map, "Name")
    THEN GetCat(GetCat(latest_data.map, key).map, "Name")
    ELSE PyStr(<< >>)

\* the value assigned to data["version"]
VersionOf(latest_data) ==
    [id |-> IF HasCat(latest_data.map, "Id") THEN GetCat(latest_data.map, "Id") ELSE PyInt(0),
     name |-> IF HasCat(latest_data.map, "Name") THEN GetCat(latest_data.map, "Name") ELSE PyStr(<< >>),
     branch |-> NameIn(latest_data, "Branch"),
     platform |-> NameIn(latest_data, "Platform")]

\* .get of a "latest", a Branch or a Platform that is not an object raises
\* AttributeError
VersionRaises(version_data) ==
    /\ HasLatest(version_data)
    /\ LET latest_data == GetCat(version_data.v, "latest") IN
       \/ latest_data.t # "dict"
       \/ \E key \in {"Branch", "Platform"} :
              /\ HasCat(latest_data.map, key)
              /\ GetCat(latest_data.map, key).t # "dict"

\* init_data_json(root_dir, version_id): template, filters and version_data
\* are what read_json gives for templates/data.template, config/filters.json
\* and data/version.json, written is what write_json returns for data.json.
\* None is returned for a template that is missing or empty, and when the
\* try block raises: KeyError for a template without "diceBadges", TypeError
\* for one whose "diceBadges" is not an object.
init_data_json(template, filters, version_data, written) ==
    IF template.none \/ template.v = << >> THEN None
    ELSE IF ~HasCat(template.v, "diceBadges") THEN None
    ELSE IF GetCat(template.v, "diceBadges").t # "dict" THEN None
    ELSE IF FiltersRaise(filters) \/ VersionRaises(version_data) THEN None
    ELSE IF ~written THEN None
    ELSE Ok((IF HasLatest(version_data)
             THEN "version" :> VersionOf(GetCat(version_data.v, "latest"))
             ELSE EmptyMap)
            @@ [DataOf(ITEM_CATEGORIES) EXCEPT
                  !.armorTypes = ArmorTypesWith(filters),
                  !.diceBadges = @ @@ AsMap(GetCat(template.v, "diceBadges").map)]
            @@ AsMap(template.v))

-----------------------------------------------------------------------------
(* Objects a stage works on.  A stage changes its working object in place;  *)
(* the caller sees the changes when the working object is the caller's own. *)

\* mutant: the working object is the caller's object itself
deepcopy_SameObject(obj) == [shared |-> TRUE, v |-> obj]

\* copy.deepcopy(obj): a new object of equal value that shares nothing with obj
deepcopy(obj) == [shared |-> FALSE, v |-> obj]

\* the value of the caller's object after the call, the working object work
\* having ended with the value after
CallerSees(original, work, after) == IF work.shared THEN after ELSE original

-----------------------------------------------------------------------------
(* scripts/s05_fill_items.py *)

\* the index of the first TRUE of a sequence of booleans, 0 when there is none
\* (a for loop that breaks at its first hit)
FirstIdx(hits) ==
    IF \E i \in 1..Len(hits) : hits[i]
    THEN CHOOSE i \in 1..Len(hits) : hits[i] /\ \A j \in 1..(i - 1) : ~hits[j]
    ELSE 0

\* "for filter_string in filters" raises TypeError: the filters are None, a
\* number or a bool
NotIterable(armor_type) == NoLen(armor_type.filters)

\* what "for filter_string in filters" yields: the elements of a list, the
\* characters of a str, the keys of a mapping
FilterStrings(armor_type) ==
    LET filters == armor_type.filters IN
    IF filters.t = "list" THEN filters.items
    ELSE IF filters.t = "str" THEN [j \in 1..Len(filters.s) |-> PyStr(<< filters.s[j] >>)]
    ELSE [j \in 1..Len(filters.map) |-> PyStr(filters.map[j].k)]

\* the first filter the first for loop stops at, 0 when it runs to its end:
\* a str that is a prefix of the Clothing value (the match), or a value that is
\* no str (startswith raises TypeError)
FirstStop(armor_type, clothing_value) ==
    LET strings == FilterStrings(armor_type) IN
    FirstIdx([j \in 1..Len(strings) |->
                 \/ strings[j].t # "str"
                 \/ StartsWith(clothing_value, strings[j].s)])

\* the loop body raises for the armor type and the Clothing text
TypeRaises(armor_type, clothing_value) ==
    \/ NotIterable(armor_type)
    \/ /\ FirstStop(armor_type, clothing_value) # 0
       /\ FilterStrings(armor_type)[FirstStop(armor_type, clothing_value)].t # "str"

\* first attempt of the loop body: some filter is a prefix of the Clothing value
PrefixHit(armor_type, clothing_value) ==
    /\ ~NotIterable(armor_type)
    /\ FirstStop(armor_type, clothing_value) # 0
    /\ FilterStrings(armor_type)[FirstStop(armor_type, clothing_value)].t = "str"

\* second attempt of the loop body, reached when the first ran to its end:
\* some filter of 3 or more characters occurs in the Clothing value
ContainsHit(armor_type, clothing_value) ==
    /\ ~NotIterable(armor_type)
    /\ FirstStop(armor_type, clothing_value) = 0
    /\ \E j \in 1..Len(FilterStrings(armor_type)) :
           /\ Len(FilterStrings(armor_type)[j].s) >= 3
           /\ Contains(clothing_value, FilterStrings(armor_type)[j].s)

\* the index of the armor type the loop over armor_types stops at (0: it runs
\* to its end): each armor type is tried with the prefix test and then with the
\* contains test before the next armor type is looked at
StopArmorType(armor_types, clothing_value) ==
    FirstIdx([i \in 1..Len(armor_types) |->
                 \/ TypeRaises(armor_types[i], clothing_value)
                 \/ PrefixHit(armor_types[i], clothing_value)
                 \/ ContainsHit(armor_types[i], clothing_value)])

\* the index of the armor type matched (0: no match)
MatchArmorType(armor_types, clothing_value) ==
    LET ti == StopArmorType(armor_types, clothing_value) IN
    IF ti # 0 /\ TypeRaises(armor_types[ti], clothing_value) THEN 0 ELSE ti

\* mutant: the join stops at the UI slot
JoinUiSlot_SlotOnly(item, ui_slot_id, d) ==
    LET si == FirstIdx([i \in 1..Len(d.uiSlots) |-> d.uiSlots[i].id = ui_slot_id]) IN
    IF si = 0 THEN item
    ELSE Put(Put(item, "uiSlotId", IntValue(ui_slot_id)), "uiSlotName", d.uiSlots[si].name)

\* "Get UI slot info" / "Get category info": the join through uiSlot and uiCategory
JoinUiSlot(item, ui_slot_id, d) ==
    LET si == FirstIdx([i \in 1..Len(d.uiSlots) |-> d.uiSlots[i].id = ui_slot_id]) IN
    IF si = 0 THEN item
    ELSE LET withSlot == Put(Put(item, "uiSlotId", IntValue(ui_slot_id)),
                             "uiSlotName", d.uiSlots[si].name)
             category_id == d.uiSlots[si].uiCategory
             ci == FirstIdx([i \in 1..Len(d.categories) |-> d.categories[i].id = category_id])
         IN  IF ci = 0 THEN withSlot
             ELSE Put(Put(withSlot, "categoryId", IntValue(category_id)),
                      "categoryName", d.categories[ci].name)

\* the body of the loop over the Armor items, for one item
FillArmorItem(armor_item, d) ==
    IF ~Has(armor_item, "Clothing") THEN armor_item
    ELSE LET ti == MatchArmorType(d.armorTypes, Get(armor_item, "Clothing")) IN
         IF ti = 0 THEN armor_item
         ELSE JoinUiSlot(Put(Put(armor_item, "armorTypeId", IntValue(d.armorTypes[ti].id)),
                             "armorTypeName", d.armorTypes[ti].name),
                         d.armorTypes[ti].uiSlot, d)

\* The loop body raises for the item: clothing_value.startswith(filter_string)
\* of a Clothing that is no str (AttributeError), reached as soon as an armor
\* type has a filter, or an armor type reached whose filters cannot be
\* iterated or hold a value that is no str before a match (TypeError)
ClothingRaises(armor_item, d) ==
    /\ Has(armor_item, "Clothing")
    /\ IF ~IsStr(Get(armor_item, "Clothing"))
       THEN \E i \in 1..Len(d.armorTypes) :
                \/ NotIterable(d.armorTypes[i])
                \/ Len(FilterStrings(d.armorTypes[i])) > 0
       ELSE LET ti == StopArmorType(d.armorTypes, Get(armor_item, "Clothing")) IN
            ti # 0 /\ TypeRaises(d.armorTypes[ti], Get(armor_item, "Clothing"))

\* Iterating a category value that is no list raises, in every fill step: a
\* mapping yields its key strings and a str its characters, which have no get,
\* no string index and no item assignment; len(None) raises TypeError
NoListRaises(val) ==
    IF val.leaf THEN val.v # << >> ELSE DOMAIN val.map # {}

\* An element of a category list that is no mapping raises in every fill
\* step: it has no get, and None and numbers take no "in"
ElementRaises(items) == \E i \in 1..Len(items) : ~IsDict(items[i])

\* the body of the loop over the Armor items raises for the item
ArmorItemRaises(armor_item, d) == ~IsDict(armor_item) \/ ClothingRaises(armor_item, d)

\* fill_armor_items(filled_items, data).  Iterating a single mapping yields its
\* key strings: for a key without "Clothing" in it the log line calls key.get
\* (AttributeError), for another key["Clothing"] raises TypeError.
fill_armor_items(items, d) ==
    LET armor == GetCatOrEmpty(items, "Armor") IN
    IF armor.list
    THEN IF \E i \in 1..Len(armor.items) : ArmorItemRaises(armor.items[i], d)
         THEN Raised
         ELSE IF HasCat(items, "Armor")
              THEN Ok(SetCat(items, "Armor",
                             List([i \in 1..Len(armor.items) |->
                                      FillArmorItem(armor.items[i], d)])))
              ELSE Ok(items)
    ELSE IF NoListRaises(armor) THEN Raised ELSE Ok(items)

\* mutant: an unmatched Class is given the sentinel type, as fill_armor_items
\* does for Clothing
FillWeaponItem_UndefinedSentinel(weapon_item, d) ==
    IF ~Has(weapon_item, "Class") THEN weapon_item
    ELSE LET ti == FirstIdx([i \in 1..Len(d.weaponTypes) |->
                                StrEquals(Get(weapon_item, "Class"), StrOfInt(d.weaponTypes[i].id))])
         IN IF ti = 0
            THEN Put(Put(weapon_item, "weaponTypeId", IntValue(-1)), "weaponTypeName", Str(<<"u","n","d","e","f","i","n","e","d">>))
            ELSE JoinUiSlot(Put(Put(weapon_item, "weaponTypeId", IntValue(d.weaponTypes[ti].id)),
                                "weaponTypeName", d.weaponTypes[ti].name),
                            d.weaponTypes[ti].uiSlot, d)

\* the body of the loop over the Weapons items, for one item:
\* str(weapon_type["id"]) == str(class_value), the Class being a string
FillWeaponItem(weapon_item, d) ==
    IF ~Has(weapon_item, "Class") THEN weapon_item
    ELSE LET ti == FirstIdx([i \in 1..Len(d.weaponTypes) |->
                                StrEquals(Get(weapon_item, "Class"), StrOfInt(d.weaponTypes[i].id))])
         IN IF ti = 0 THEN weapon_item
            ELSE JoinUiSlot(Put(Put(weapon_item, "weaponTypeId", IntValue(d.weaponTypes[ti].id)),
                                "weaponTypeName", d.weaponTypes[ti].name),
                            d.weaponTypes[ti].uiSlot, d)

\* fill_weapon_items(filled_items, data); a single mapping yields its key
\* strings, which have no get and no string index
fill_weapon_items(items, d) ==
    LET weapons == GetCatOrEmpty(items, "Weapons") IN
    IF weapons.list
    THEN IF ElementRaises(weapons.items) THEN Raised
         ELSE IF HasCat(items, "Weapons")
         THEN Ok(SetCat(items, "Weapons",
                        List([i \in 1..Len(weapons.items) |->
                                 FillWeaponItem(weapons.items[i], d)])))
         ELSE Ok(items)
    ELSE IF NoListRaises(weapons) THEN Raised ELSE Ok(items)

\* the first category of data["categories"] with the name, 0 when there is none
CategoryNamed(d, name) ==
    FirstIdx([i \in 1..Len(d.categories) |-> d.categories[i].name = name])

\* fill_dice_items(filled_items, data): None without a category named "dice";
\* a key string of a single mapping takes no item assignment (TypeError)
fill_dice_items(items, d) ==
    LET ci == CategoryNamed(d, Str(<<"d","i","c","e">>))
        dice == GetCatOrEmpty(items, "Die")
    IN IF ci = 0 THEN None
       ELSE IF dice.list
       THEN IF ElementRaises(dice.items) THEN Raised
            ELSE IF HasCat(items, "Die")
            THEN Ok(SetCat(items, "Die",
                           List([i \in 1..Len(dice.items) |->
                                    Put(Put(dice.items[i], "categoryId", IntValue(d.categories[ci].id)),
                                        "categoryName", d.categories[ci].name)])))
            ELSE Ok(items)
       ELSE IF NoListRaises(dice) THEN Raised ELSE Ok(items)

\* the name of the entry of types whose str(id) is the value, "Unknown" when
\* there is none
BadgeName(types, value) ==
    LET ti == FirstIdx([i \in 1..Len(types) |-> StrEquals(value, StrOfInt(types[i].id))]) IN
    IF ti = 0 THEN Str(<<"U","n","k","n","o","w","n">>) ELSE types[ti].name

\* mutant: Type and SubType are copied and not popped
FillBadgeItem_KeepsType(badge_item, category, d) ==
    IF ~Has(badge_item, "Type") \/ ~Has(badge_item, "SubType") THEN badge_item
    ELSE LET renamed == Put(Put(badge_item, "badgeTypeId", Get(badge_item, "Type")),
                            "badgeSubTypeId", Get(badge_item, "SubType"))
             named == Put(Put(renamed, "badgeTypeName",
                              BadgeName(d.diceBadges.types, Get(badge_item, "Type"))),
                          "badgeSubTypeName",
                          BadgeName(d.diceBadges.subtypes, Get(badge_item, "SubType")))
         IN Put(Put(named, "categoryId", IntValue(category.id)), "categoryName", category.name)

\* the body of the loop over the DiceBadge items, for one item
FillBadgeItem(badge_item, category, d) ==
    IF ~Has(badge_item, "Type") \/ ~Has(badge_item, "SubType") THEN badge_item
    ELSE LET renamed == Put(Put(Del(Del(badge_item, "Type"), "SubType"),
                                "badgeTypeId", Get(badge_item, "Type")),
                            "badgeSubTypeId", Get(badge_item, "SubType"))
             named == Put(Put(renamed, "badgeTypeName",
                              BadgeName(d.diceBadges.types, Get(badge_item, "Type"))),
                          "badgeSubTypeName",
                          BadgeName(d.diceBadges.subtypes, Get(badge_item, "SubType")))
         IN Put(Put(named, "categoryId", IntValue(category.id)), "categoryName", category.name)

\* fill_dice_badge_types(filled_items, data): None without a category named
\* "diceBadge"; a key string of a single mapping has no get and no pop
fill_dice_badge_types(items, d) ==
    LET ci == CategoryNamed(d, Str(<<"d","i","c","e","B","a","d","g","e">>))
        badges == GetCatOrEmpty(items, "DiceBadge")
    IN IF ci = 0 THEN None
       ELSE IF badges.list
       THEN IF ElementRaises(badges.items) THEN Raised
            ELSE IF HasCat(items, "DiceBadge")
            THEN Ok(SetCat(items, "DiceBadge",
                           List([i \in 1..Len(badges.items) |->
                                    FillBadgeItem(badges.items[i], d.categories[ci], d)])))
            ELSE Ok(items)
       ELSE IF NoListRaises(badges) THEN Raised ELSE Ok(items)

\* filled_items = fill_weapon_items(filled_items, data), a the outcome of
\* fill_armor_items: an exception leaves the try block
ThenWeapons(a, d) == IF a.exc THEN a ELSE fill_weapon_items(a.v, d)

\* filled_items = fill_dice_items(filled_items, data), w the outcome of the
\* weapon step
ThenDice(w, d) == IF w.exc THEN w ELSE fill_dice_items(w.v, d)

\* filled_items = fill_dice_badge_types(filled_items, data), dice the outcome
\* of the dice step: "if not filled_items: return filled_items"
ThenBadges(dice, d) ==
    IF dice.exc \/ dice.none THEN dice ELSE fill_dice_badge_types(dice.v, d)

\* what fill_item_properties returns, b the outcome of the last step taken:
\* the except clause returns parsed_items
Returned(parsed, b) ==
    IF b.exc THEN [out |-> Ok(parsed), raised |-> TRUE]
    ELSE [out |-> b, raised |-> FALSE]

\* fill_item_properties(root_dir, version_id, parsed_items, data): v is the
\* value returned ({} is the empty collection), raised tells whether the
\* inner except clause caught an exception of a fill step
FillItemPropertiesRun(parsed, d) ==
    IF parsed = << >> THEN [out |-> Ok(<< >>), raised |-> FALSE]
    ELSE Then(fill_armor_items(parsed, d), LAMBDA a :
         Then(ThenWeapons(a, d), LAMBDA w :
         Then(ThenDice(w, d), LAMBDA dice :
         Then(ThenBadges(dice, d), LAMBDA b : Returned(parsed, b)))))

fill_item_properties(parsed, d) == FillItemPropertiesRun(parsed, d).out

\* the working collection when the loop of a fill step over category k ends:
\* the elements before the first one that raises are written (filled), a
\* category that is no list is not written
ListInPlace(items, k, raises, filled) ==
    LET val == GetCatOrEmpty(items, k)
        stop == FirstIdx(raises)
    IN IF val.list /\ HasCat(items, k)
       THEN SetCat(items, k,
                   List([i \in 1..Len(val.items) |->
                            IF stop = 0 \/ i < stop THEN filled[i] ELSE val.items[i]]))
       ELSE items

\* the working collection when fill_armor_items ends
ArmorInPlace(items, d) ==
    LET armor == GetCatOrEmpty(items, "Armor") IN
    ListInPlace(items, "Armor",
                [i \in 1..Len(armor.items) |-> ArmorItemRaises(armor.items[i], d)],
                [i \in 1..Len(armor.items) |-> FillArmorItem(armor.items[i], d)])

\* the working collection when fill_weapon_items ends
WeaponsInPlace(items, d) ==
    LET weapons == GetCatOrEmpty(items, "Weapons") IN
    ListInPlace(items, "Weapons",
                [i \in 1..Len(weapons.items) |-> ~IsDict(weapons.items[i])],
                [i \in 1..Len(weapons.items) |-> FillWeaponItem(weapons.items[i], d)])

\* the working collection when fill_dice_items ends, ci the dice category
DiceInPlace(items, d, ci) ==
    LET dice == GetCatOrEmpty(items, "Die") IN
    ListInPlace(items, "Die",
                [i \in 1..Len(dice.items) |-> ~IsDict(dice.items[i])],
                [i \in 1..Len(dice.items) |->
                    Put(Put(dice.items[i], "categoryId", IntValue(d.categories[ci].id)),
                        "categoryName", d.categories[ci].name)])

\* the working collection when fill_dice_badge_types ends, ci the diceBadge
\* category
BadgesInPlace(items, d, ci) ==
    LET badges == GetCatOrEmpty(items, "DiceBadge") IN
    ListInPlace(items, "DiceBadge",
                [i \in 1..Len(badges.items) |-> ~IsDict(badges.items[i])],
                [i \in 1..Len(badges.items) |->
                    FillBadgeItem(badges.items[i], d.categories[ci], d)])

\* the working collection when fill_item_properties ends: every fill step
\* writes into the records of the working collection, a step that returns
\* None on a missing category has written nothing
FilledInPlace(parsed, d) ==
    Then(fill_armor_items(parsed, d), LAMBDA a :
        IF a.exc THEN ArmorInPlace(parsed, d)
        ELSE Then(fill_weapon_items(a.v, d), LAMBDA w :
        IF w.exc THEN WeaponsInPlace(a.v, d)
        ELSE Then(fill_dice_items(w.v, d), LAMBDA dice :
        IF dice.none THEN w.v
        ELSE IF dice.exc
        THEN DiceInPlace(w.v, d, CategoryNamed(d, Str(<<"d","i","c","e">>)))
        ELSE Then(fill_dice_badge_types(dice.v, d), LAMBDA b :
        IF b.none THEN dice.v
        ELSE IF b.exc
        THEN BadgesInPlace(dice.v, d, CategoryNamed(d, Str(<<"d","i","c","e","B","a","d","g","e">>)))
        ELSE b.v))))

-----------------------------------------------------------------------------
(* The armor classifier on its own: fill_armor_items applied to a collection *)
(* whose Armor category is a list of at most MaxArmor records.              *)

MaxArmor == 2

\* sequences over S of length at most n
SeqUpTo(S, n) == UNION {[1..m -> S] : m \in 0..n}

NoMainState ==
    /\ combined_items = << >> /\ text_ui_items = << >> /\ data = << >>
    /\ parsed_items = << >> /\ filled_items = << >> /\ items_array = << >>
    /\ exit_code = -1 /\ ran = << >> /\ raised = {}

NoCounts == [key_filter |-> 0, icon_filter |-> 0, ui_name_filter |-> 0, kv_filter |-> 0]

ArmorRecord(id, clothing) ==
    (K("Id") :> id) @@ (K("Name") :> Str(<<"a","r","m">>)) @@ (K("Clothing") :> clothing)

ArmorPool ==
    { ArmorRecord(Str(<<"a","1">>), Str(<<"C","o","i","f","C","a","p">>)),
      ArmorRecord(Str(<<"a","2">>), Str(<<"C","a","p">>)),
      ArmorRecord(Str(<<"a","3">>), Str(<<"H","o","o","d">>)),
      ArmorRecord(Str(<<"a","4">>), Str(<<"L","e","g","s","B","r","i","g","a","n","d","i","n","e">>)),
      ArmorRecord(Str(<<"a","5">>), Str(<<"H","o","r","s","e","B","r","i","d","l","e">>)),
      ArmorRecord(Str(<<"a","6">>), Str(<<"S","h","o","e">>)),
      ArmorRecord(Str(<<"a","7">>), Str(<<"B","r">>)),
      (K("Id") :> Str(<<"a","8">>)) @@ (K("Name") :> Str(<<"a","r","m">>)) }

InitArmor ==
    /\ pc = "call_fill_armor_items"
    /\ \E items \in SeqUpTo(ArmorPool, MaxArmor) :
           arg = [filled_items |-> << [k |-> "Armor", val |-> List(items)] >>,
                  data |-> DataOf(ITEM_CATEGORIES)]
    /\ ret = << >>
    /\ removed_counts = NoCounts
    /\ NoMainState

CallFillArmorItems ==
    /\ pc = "call_fill_armor_items"
    /\ ret' = fill_armor_items(arg.filled_items, arg.data)
    /\ pc' = "ret_fill_armor_items"
    /\ UNCHANGED << arg, removed_counts, mainVars >>

NextArmor == CallFillArmorItems

SpecArmor == InitArmor /\ [][NextArmor]_vars

ArmorIn == GetCat(arg.filled_items, "Armor").items

ArmorOut == GetCat(ret.v, "Armor").items

\* some filter of some armor type matches the Clothing value, by either strategy
SomeFilterMatches(clothing_value) ==
    \E i \in 1..Len(ARMOR_TYPES) :
        PrefixHit(ARMOR_TYPES[i], clothing_value) \/ ContainsHit(ARMOR_TYPES[i], clothing_value)

ArmorIdsMatching(clothing_value) ==
    { IntValue(ARMOR_TYPES[i].id) : i \in { j \in 1..Len(ARMOR_TYPES) :
          PrefixHit(ARMOR_TYPES[j], clothing_value) \/ ContainsHit(ARMOR_TYPES[j], clothing_value) } }

\* C1: after fill_armor_items every Armor record carries an armorTypeId: the id
\* of a matched armor type when some filter matches its Clothing value, and
\* otherwise -1 with armorTypeName "undefined"; no record is removed.
C1_EveryArmorRecordTyped ==
    pc = "ret_fill_armor_items" =>
        /\ ~ret.exc
        /\ Len(ArmorOut) = Len(ArmorIn)
        /\ \A i \in 1..Len(ArmorIn) :
              /\ Has(ArmorOut[i], "armorTypeId")
              /\ Has(ArmorOut[i], "armorTypeName")
              /\ IF Has(ArmorIn[i], "Clothing") /\ SomeFilterMatches(Get(ArmorIn[i], "Clothing"))
                 THEN Get(ArmorOut[i], "armorTypeId") \in ArmorIdsMatching(Get(ArmorIn[i], "Clothing"))
                 ELSE /\ Get(ArmorOut[i], "armorTypeId") = IntValue(-1)
                      /\ Get(ArmorOut[i], "armorTypeName") = Str(<<"u","n","d","e","f","i","n","e","d">>)

\* the first armor type that has a filter that is a prefix of the value
FirstPrefixType(clothing_value) ==
    FirstIdx([i \in 1..Len(ARMOR_TYPES) |-> PrefixHit(ARMOR_TYPES[i], clothing_value)])

\* C2: when the Clothing value starts with a filter of at least one armor type,
\* the assigned type is the first armor type (taxonomy order) that has such a
\* prefix-matching filter, whatever substring matches earlier armor types have.
C2_PrefixBeforeSubstring ==
    pc = "ret_fill_armor_items" =>
        \A i \in 1..Len(ArmorIn) :
            (Has(ArmorIn[i], "Clothing") /\ FirstPrefixType(Get(ArmorIn[i], "Clothing")) # 0) =>
                /\ Has(ArmorOut[i], "armorTypeId")
                /\ Get(ArmorOut[i], "armorTypeId") =
                       IntValue(ARMOR_TYPES[FirstPrefixType(Get(ArmorIn[i], "Clothing"))].id)

-----------------------------------------------------------------------------
(* scripts/s04_parse_items.py: fix_alias *)

\* the records fix_alias indexes, in iteration order: those of list-valued
\* categories other than ItemAlias that have both "Id" and "Name"
RECURSIVE IndexedRecords(_)
IndexedRecords(c) ==
    IF c = << >> THEN << >>
    ELSE LET e == Head(c)
             recs == IF e.k = "ItemAlias" \/ ~e.val.list THEN << >>
                     ELSE SelectSeq(e.val.items,
                                    LAMBDA it : Has(it, "Id") /\ Has(it, "Name"))
         IN  [i \in 1..Len(recs) |-> [category |-> e.k, item |-> recs[i]]]
                 \o IndexedRecords(Tail(c))

\* two values are one key of a dict: hash and == agree.  Numbers compare by
\* value whatever their type (1, True and 1.0 are one key, so are 0, False,
\* 0.0 and -0.0); the NaN of a JSON document is the one object the decoder
\* yields for every NaN and is found by identity; anything else is equal only
\* to a value of its own type
IsNumber(value) ==
    /\ ~IsStr(value)
    /\ value # NoneValue
    /\ value[2].t \in {"int", "float", "bool"}

\* the number as a float, -0.0 as 0.0; an int of the model is below 2^31,
\* so exact
NumberOf(value) ==
    IF value[2].t = "float"
    THEN IF value[2].x = Zero(TRUE) THEN Zero(FALSE) ELSE value[2].x
    ELSE FloatOfInt(IF value[2].t = "int" THEN value[2].n ELSE IF value[2].b THEN 1 ELSE 0)

\* two numbers are one key when they have one value
KeyEq(a, b) ==
    \/ a = b
    \/ IsNumber(a) /\ IsNumber(b) /\ Cardinality({ NumberOf(value) : value \in {a, b} }) = 1

\* key in source_id_map; the map is the sequence of its entries [k, val] in
\* insertion order
HasKey(m, key) == \E i \in 1..Len(m) : KeyEq(m[i].k, key)

\* source_id_map.get(key) of a key the map has
GetKey(m, key) == m[CHOOSE i \in 1..Len(m) : KeyEq(m[i].k, key)].val

\* source_id_map[key] = val: an entry of an equal key keeps its key and its
\* place and takes the new value
SetKey(m, key, val) ==
    IF HasKey(m, key)
    THEN [i \in 1..Len(m) |-> IF KeyEq(m[i].k, key) THEN [k |-> m[i].k, val |-> val] ELSE m[i]]
    ELSE Append(m, [k |-> key, val |-> val])

RECURSIVE IndexFrom(_, _)
IndexFrom(m, recs) ==
    IF recs = << >> THEN m
    ELSE IndexFrom(SetKey(m, Get(Head(recs).item, "Id"), Head(recs)), Tail(recs))

\* source_id_map: Id -> (category, item_data)
SourceIdMap(c) == IndexFrom(<< >>, IndexedRecords(c))

\* mutant: the loop copies every alias property, SourceItemId included
MergeAlias_CopiesSourceItemId(source_item, alias_data) ==
    [k \in DOMAIN source_item \cup DOMAIN alias_data |->
        IF k \in DOMAIN alias_data THEN alias_data[k] ELSE source_item[k]]

\* merged_item: a copy of the source item overridden with the alias properties
\* (except SourceItemId)
MergeAlias(source_item, alias_data) ==
    LET over == DOMAIN alias_data \ {K("SourceItemId")} IN
    [k \in DOMAIN source_item \cup over |->
        IF k \in over THEN alias_data[k] ELSE source_item[k]]

\* the alias is kept without a lookup: it is no mapping, or lacks SourceItemId
\* or Name
AliasInvalid(alias_data) == ~Has(alias_data, "SourceItemId") \/ ~Has(alias_data, "Name")

\* parsed_items[source_category].append(merged_item)
AppendItem(c, k, item) == SetCat(c, k, List(Append(GetCat(c, k).items, item)))

\* mutant: a merged alias is also kept in the bucket
AliasStep_KeepsMerged(st, id_map, alias_data) ==
    IF AliasInvalid(alias_data) \/ ~HasKey(id_map, Get(alias_data, "SourceItemId"))
    THEN [st EXCEPT !.keep = Append(@, alias_data)]
    ELSE LET src == GetKey(id_map, Get(alias_data, "SourceItemId")) IN
         [c |-> AppendItem(st.c, src.category, MergeAlias(src.item, alias_data)),
          keep |-> Append(st.keep, alias_data)]

\* mutant: the lookup sees the records merged so far
AliasStep_SeesMerged(st, id_map, alias_data) ==
    IF AliasInvalid(alias_data)
          \/ ~HasKey(SourceIdMap(st.c), Get(alias_data, "SourceItemId"))
    THEN [st EXCEPT !.keep = Append(@, alias_data)]
    ELSE LET src == GetKey(SourceIdMap(st.c), Get(alias_data, "SourceItemId")) IN
         [st EXCEPT !.c = AppendItem(@, src.category, MergeAlias(src.item, alias_data))]

\* one iteration of the loop over the aliases; st = [c, keep]
AliasStep(st, id_map, alias_data) ==
    IF AliasInvalid(alias_data)
    THEN [st EXCEPT !.keep = Append(@, alias_data)]
    ELSE IF ~HasKey(id_map, Get(alias_data, "SourceItemId"))
         THEN [st EXCEPT !.keep = Append(@, alias_data)]
         ELSE LET src == GetKey(id_map, Get(alias_data, "SourceItemId")) IN
              [st EXCEPT !.c = AppendItem(@, src.category, MergeAlias(src.item, alias_data))]

RECURSIVE AliasLoop(_, _, _)
AliasLoop(st, id_map, aliases) ==
    IF aliases = << >> THEN st
    ELSE AliasLoop(AliasStep(st, id_map, Head(aliases)), id_map, Tail(aliases))

\* source_id_map[item_data["Id"]] = ... raises TypeError for an Id that is a
\* mapping or a list
IndexRaises(c) ==
    \E i \in 1..Len(IndexedRecords(c)) : Unhashable(Get(IndexedRecords(c)[i].item, "Id"))

\* source_id_map.get(source_id) raises TypeError for a SourceItemId that is a
\* mapping or a list
LookupRaises(aliases) ==
    \E i \in 1..Len(aliases) :
        ~AliasInvalid(aliases[i]) /\ Unhashable(Get(aliases[i], "SourceItemId"))

\* fix_alias(parsed_items): None when its try block caught an exception
fix_alias(c) ==
    IF ~HasCat(c, "ItemAlias") THEN Ok(c)
    ELSE IF IndexRaises(c) THEN None
    ELSE IF ~GetCat(c, "ItemAlias").list THEN Ok(c)
    ELSE IF LookupRaises(GetCat(c, "ItemAlias").items) THEN None
    ELSE CHOOSE outcome \in
             { Ok(SetCat(end.c, "ItemAlias", List(end.keep))) :
               end \in { AliasLoop([c |-> c, keep |-> << >>], SourceIdMap(c),
                                    GetCat(c, "ItemAlias").items) } } : TRUE

-----------------------------------------------------------------------------
(* The alias resolver on its own: fix_alias applied to a collection with a  *)
(* MeleeWeapon list, an ItemAlias bucket and a Die category.                *)

MaxSource == 2

MaxAlias == 2

S_sword_base == Str(<<"s","w","o","r","d","_","b","a","s","e">>)

S_sword_gold == Str(<<"s","w","o","r","d","_","g","o","l","d">>)

S_axe == Str(<<"a","x","e">>)

S_die == Str(<<"d","i","e">>)

SourcePool ==
    { (K("Id") :> Str(<<"A","1">>)) @@ (K("Name") :> S_sword_base) @@ (K("Price") :> Str(<<"1","0","0">>)),
      (K("Id") :> Str(<<"A","2">>)) @@ (K("Name") :> S_axe),
      (K("Id") :> Str(<<"A","3">>)) @@ (K("Price") :> Str(<<"7">>)) }

DieRecord == (K("Id") :> Str(<<"D","1">>)) @@ (K("Name") :> S_die)

\* a Die record that carries the Id of a MeleeWeapon record
DieRecordA1 == (K("Id") :> Str(<<"A","1">>)) @@ (K("Name") :> S_die) @@ (K("Price") :> Str(<<"1">>))

AliasPool ==
    { (K("Name") :> S_sword_gold) @@ (K("SourceItemId") :> Str(<<"A","1">>)) @@ (K("Price") :> Str(<<"5","0","0">>)),
      (K("Name") :> Str(<<"x">>)) @@ (K("SourceItemId") :> Str(<<"A","3">>)),
      (K("Name") :> Str(<<"y">>)) @@ (K("SourceItemId") :> Str(<<"Z","Z">>)),
      (K("SourceItemId") :> Str(<<"A","1">>)) @@ (K("Price") :> Str(<<"9">>)),
      (K("Id") :> Str(<<"B","1">>)) @@ (K("Name") :> Str(<<"z">>)) @@ (K("SourceItemId") :> Str(<<"A","2">>)),
      (K("Name") :> Str(<<"w">>)) @@ (K("SourceItemId") :> Str(<<"B","1">>)),
      (K("Name") :> Str(<<"v">>)) @@ (K("SourceItemId") :> Str(<<"D","1">>)),
      (K("Id") :> Str(<<"B","2">>)) @@ (K("Name") :> Str(<<"u">>)) }

\* an optional category: absent, or one entry
OptCat(k, vals) == {<< >>} \cup {<< [k |-> k, val |-> v] >> : v \in vals}

\* records whose Id is no text: the int 1, the bool True (one key with 1), a
\* list with a Name (indexed, and not hashable) and a list without a Name (not
\* indexed)
TypedSourcePool ==
    { (K("Id") :> IntValue(1)) @@ (K("Name") :> S_sword_base) @@ (K("Price") :> Str(<<"1","0","0">>)),
      (K("Id") :> Opaque(PyBool(TRUE))) @@ (K("Name") :> S_axe),
      (K("Id") :> Opaque(PyList(<< >>))) @@ (K("Name") :> S_die),
      (K("Id") :> Opaque(PyList(<< >>))) @@ (K("Price") :> Str(<<"7">>)) }

\* a Die record whose Id is the float 1.0
DieRecordOne == (K("Id") :> Opaque(PyFloat(FloatOfInt(1)))) @@ (K("Name") :> S_die)

\* aliases whose SourceItemId is the float 1.0, the text "1", a list (looked
\* up with a Name, not looked up without), and an element that is no mapping
TypedAliasPool ==
    { (K("Name") :> S_sword_gold) @@ (K("SourceItemId") :> Opaque(PyFloat(FloatOfInt(1))))
          @@ (K("Price") :> Str(<<"5","0","0">>)),
      (K("Name") :> Str(<<"y">>)) @@ (K("SourceItemId") :> Str(<<"1">>)),
      (K("Name") :> Str(<<"x">>)) @@ (K("SourceItemId") :> Opaque(PyList(<< >>))),
      (K("SourceItemId") :> Opaque(PyList(<< >>))) @@ (K("Price") :> Str(<<"9">>)),
      NonDict :> Str(<<"w">>) }

AliasInputs ==
    { << [k |-> "MeleeWeapon", val |-> List(src)] >> \o al \o die :
        src \in SeqUpTo(SourcePool, MaxSource),
        al \in OptCat("ItemAlias",
                      {List(a) : a \in SeqUpTo(AliasPool, MaxAlias)}
                          \cup {Dict(a) : a \in AliasPool}),
        die \in OptCat("Die", {List(<< DieRecord >>), List(<< DieRecordA1 >>),
                               Dict(DieRecord)}) }

\* the same with keys that are no text
TypedAliasInputs ==
    { << [k |-> "MeleeWeapon", val |-> List(src)] >> \o al \o die :
        src \in SeqUpTo(TypedSourcePool, MaxSource),
        al \in OptCat("ItemAlias", {List(a) : a \in SeqUpTo(TypedAliasPool, MaxAlias)}),
        die \in OptCat("Die", {List(<< DieRecordOne >>)}) }

InitAlias ==
    /\ pc = "call_fix_alias"
    /\ \/ \E c \in AliasInputs : arg = [parsed_items |-> c]
       \/ \E c \in TypedAliasInputs : arg = [parsed_items |-> c]
    /\ ret = << >>
    /\ removed_counts = NoCounts
    /\ NoMainState

CallFixAlias ==
    /\ pc = "call_fix_alias"
    /\ ret' = fix_alias(arg.parsed_items)
    /\ pc' = "ret_fix_alias"
    /\ UNCHANGED << arg, removed_counts, mainVars >>

NextAlias == CallFixAlias

SpecAlias == InitAlias /\ [][NextAlias]_vars

\* fix_alias has returned from a call whose ItemAlias bucket was a list
AliasReturned ==
    /\ pc = "ret_fix_alias"
    /\ HasCat(arg.parsed_items, "ItemAlias")
    /\ GetCat(arg.parsed_items, "ItemAlias").list

AliasIn == GetCat(arg.parsed_items, "ItemAlias").items

\* that call has returned a collection, not None
AliasResolved == AliasReturned /\ ~ret.none

\* the input of the call has a key that cannot be hashed: the Id of a record
\* with a Name in a list-valued non-alias category, or the SourceItemId of an
\* alias record with a Name, is a list or a mapping
KeyUnhashable ==
    \/ \E ci \in 1..Len(arg.parsed_items) :
          /\ arg.parsed_items[ci].k # "ItemAlias"
          /\ arg.parsed_items[ci].val.list
          /\ \E j \in 1..Len(arg.parsed_items[ci].val.items) :
                /\ Has(arg.parsed_items[ci].val.items[j], "Id")
                /\ Has(arg.parsed_items[ci].val.items[j], "Name")
                /\ Unhashable(Get(arg.parsed_items[ci].val.items[j], "Id"))
    \/ \E i \in 1..Len(AliasIn) :
          /\ Has(AliasIn[i], "Name")
          /\ Has(AliasIn[i], "SourceItemId")
          /\ Unhashable(Get(AliasIn[i], "SourceItemId"))

\* the positions <<category index, record index>> of the records whose Id is
\* the key sid (equal to it as Python compares keys) in the list-valued
\* non-alias categories of c; withName: only those that also have a Name
IdPositions(c, sid, withName) ==
    { p \in (1..Len(c)) \X (1..(MaxSource + MaxAlias + 2)) :
        /\ c[p[1]].k # "ItemAlias"
        /\ c[p[1]].val.list
        /\ p[2] <= Len(c[p[1]].val.items)
        /\ Has(c[p[1]].val.items[p[2]], "Id")
        /\ KeyEq(Get(c[p[1]].val.items[p[2]], "Id"), sid)
        /\ (withName => Has(c[p[1]].val.items[p[2]], "Name")) }

\* the last position of a set of positions, in iteration order
LastPosition(ps) ==
    CHOOSE p \in ps : \A q \in ps : q[1] < p[1] \/ (q[1] = p[1] /\ q[2] <= p[2])

ItemAt(c, p) == c[p[1]].val.items[p[2]]

\* what the claims call the merged record: the source's attributes overwritten
\* by every alias attribute except SourceItemId
IsMergeOf(m, source, alias) ==
    /\ DOMAIN m = DOMAIN source \cup (DOMAIN alias \ {K("SourceItemId")})
    /\ \A k \in DOMAIN m :
          m[k] = IF k \in DOMAIN alias THEN alias[k] ELSE source[k]

\* the records appended to the category at index ci by the call
AppendedTo(ci) ==
    SubSeq(ret.v[ci].val.items, Len(arg.parsed_items[ci].val.items) + 1,
           Len(ret.v[ci].val.items))

\* every record of the input is still in place, unchanged
SourcesInPlace ==
    /\ Len(ret.v) = Len(arg.parsed_items)
    /\ \A ci \in 1..Len(arg.parsed_items) :
          /\ ret.v[ci].k = arg.parsed_items[ci].k
          /\ arg.parsed_items[ci].k # "ItemAlias" =>
                /\ ret.v[ci].val.list = arg.parsed_items[ci].val.list
                /\ ret.v[ci].val.map = arg.parsed_items[ci].val.map
                /\ Len(ret.v[ci].val.items) >= Len(arg.parsed_items[ci].val.items)
                /\ SubSeq(ret.v[ci].val.items, 1, Len(arg.parsed_items[ci].val.items))
                      = arg.parsed_items[ci].val.items

RECURSIVE SumAppended(_)
SumAppended(ci) ==
    IF ci = 0 THEN 0
    ELSE SumAppended(ci - 1)
             + (IF arg.parsed_items[ci].k = "ItemAlias" THEN 0 ELSE Len(AppendedTo(ci)))

\* the aliases of the call that name, by SourceItemId, the Id of a record of a
\* list-valued non-alias category; withName: of a record that also has a Name
AliasesWithSource(withName) ==
    { i \in 1..Len(AliasIn) :
        /\ Has(AliasIn[i], "Name")
        /\ Has(AliasIn[i], "SourceItemId")
        /\ IdPositions(arg.parsed_items, Get(AliasIn[i], "SourceItemId"), withName) # {} }

\* C3 as stated: every alias that has a Name and a SourceItemId equal to the Id
\* of some record of a non-alias category gets exactly one merged record
\* appended to that record's category, and the sources stay in place.
C3_AliasMergedForAnySourceWithId ==
    AliasReturned =>
        /\ ~ret.none
        /\ SourcesInPlace
        /\ SumAppended(Len(arg.parsed_items)) = Cardinality(AliasesWithSource(FALSE))
        /\ \A i \in AliasesWithSource(FALSE) :
              \E p \in IdPositions(arg.parsed_items, Get(AliasIn[i], "SourceItemId"), FALSE) :
                  \E j \in 1..Len(AppendedTo(p[1])) :
                      IsMergeOf(AppendedTo(p[1])[j], ItemAt(arg.parsed_items, p), AliasIn[i])

\* the merged records the amended claim expects at the end of category ci: one
\* per alias, in alias order, whose source (the last record with that Id and a
\* Name) sits in category ci
ExpectedAppended(ci) ==
    LET sel == SelectSeq(AliasIn, LAMBDA a :
                   /\ Has(a, "Name")
                   /\ Has(a, "SourceItemId")
                   /\ IdPositions(arg.parsed_items, Get(a, "SourceItemId"), TRUE) # {}
                   /\ LastPosition(IdPositions(arg.parsed_items,
                                               Get(a, "SourceItemId"), TRUE))[1] = ci)
    IN  [j \in 1..Len(sel) |->
            [a |-> sel[j],
             s |-> ItemAt(arg.parsed_items,
                          LastPosition(IdPositions(arg.parsed_items,
                                                   Get(sel[j], "SourceItemId"), TRUE)))]]

\* C3 (amended): when fix_alias returns a collection, then for every alias
\* record of a list-valued ItemAlias bucket that has a Name and a SourceItemId
\* equal, as a dict key, to the Id of some record that has a Name and sits in a
\* list-valued non-alias category, it has appended exactly one new record, the
\* merge of the last such record (in iteration order) with the alias, to that
\* record's category; nothing else is appended and every source record stays
\* in place unchanged.
C3_AliasMergedIntoSourceCategory ==
    AliasResolved =>
        /\ SourcesInPlace
        /\ \A ci \in 1..Len(arg.parsed_items) :
              (arg.parsed_items[ci].k # "ItemAlias" /\ arg.parsed_items[ci].val.list) =>
                  /\ Len(AppendedTo(ci)) = Len(ExpectedAppended(ci))
                  /\ \A j \in 1..Len(AppendedTo(ci)) :
                        IsMergeOf(AppendedTo(ci)[j], ExpectedAppended(ci)[j].s,
                                  ExpectedAppended(ci)[j].a)

\* the scenario of the spec: sword_gold, alias of A1 (sword_base, Price 100) with
\* Price 500, has been merged into MeleeWeapon
C3_Witness ==
    /\ AliasResolved
    /\ \E i \in 1..Len(AliasIn) :
          /\ Has(AliasIn[i], "Name")
          /\ Get(AliasIn[i], "Name") = S_sword_gold
    /\ \E j \in 1..Len(AppendedTo(1)) :
          AppendedTo(1)[j] = (K("Id") :> Str(<<"A","1">>)) @@ (K("Name") :> S_sword_gold)
                                 @@ (K("Price") :> Str(<<"5","0","0">>))

RECURSIVE IsSubsequence(_, _)
IsSubsequence(s, t) ==
    IF s = << >> THEN TRUE
    ELSE IF t = << >> THEN FALSE
    ELSE IF Head(s) = Head(t) THEN IsSubsequence(Tail(s), Tail(t))
    ELSE IsSubsequence(s, Tail(t))

\* the records appended to the non-alias categories plus the records left in
\* ItemAlias are as many as the original alias records; the records left are
\* original alias records, unmodified and in order; the non-alias categories
\* lose nothing
Conserved ==
    /\ SourcesInPlace
    /\ GetCat(ret.v, "ItemAlias").list
    /\ SumAppended(Len(arg.parsed_items)) + Len(GetCat(ret.v, "ItemAlias").items)
          = Len(AliasIn)
    /\ IsSubsequence(GetCat(ret.v, "ItemAlias").items, AliasIn)

\* C4 as stated: alias conservation for every input in which ItemAlias is a
\* list: each alias record ends merged or retained, merged + retained = the
\* original alias records.
C4_ConservationForAnyList ==
    AliasReturned => (~ret.none /\ Conserved)

\* C4 (amended): for an input in which ItemAlias is a list, fix_alias returns
\* None exactly when a key cannot be hashed (the Id of a record with a Name in
\* a list-valued non-alias category, or the SourceItemId of an alias with a
\* Name, is a list or a mapping); in every other case each alias record ends
\* merged or retained: the records appended to the non-alias categories plus
\* the records left in ItemAlias are as many as the original alias records,
\* the records left are original alias records, unmodified and in order, and
\* the non-alias categories lose nothing.
C4_AliasConservation ==
    AliasReturned =>
        /\ ret.none <=> KeyUnhashable
        /\ ~ret.none => Conserved

\* one alias has been merged and one has been retained: the alias of the float
\* 1.0 went to the record whose Id is the int 1, the alias of the text "1"
\* stayed
C4_Witness ==
    /\ AliasResolved
    /\ Len(AliasIn) = 2
    /\ \E i \in 1..2 : Has(AliasIn[i], "SourceItemId")
                           /\ IsNumber(Get(AliasIn[i], "SourceItemId"))
    /\ SumAppended(Len(arg.parsed_items)) = 1
    /\ Len(GetCat(ret.v, "ItemAlias").items) = 1

-----------------------------------------------------------------------------
(* scripts/s04_parse_items.py: condense_categories *)

CATEGORIES_TO_MERGE ==
    << [target |-> "Armor",
        sources |-> << "Armor", "Hood", "Helmet", "QuickSlotContainer" >>],
       [target |-> "Weapons",
        sources |-> << "MeleeWeapon", "MissileWeapon" >>] >>

\* mutant: the target list is replaced by the source list instead of extended
MergeSource_Replaces(r, target_category, category) ==
    IF r.exc \/ category = target_category \/ ~HasCat(r.v, category) THEN r
    ELSE IF ~GetCat(r.v, category).list THEN r
    ELSE IF ~GetCat(r.v, target_category).list THEN Raised
    ELSE Ok(DelCat(SetCat(r.v, target_category,
                          List(GetCat(r.v, category).items)),
                   category))

\* the body of the loop over source_categories, for one source category; a
\* mapping has no extend (AttributeError)
MergeSource(r, target_category, category) ==
    IF r.exc \/ category = target_category \/ ~HasCat(r.v, category) THEN r
    ELSE IF ~GetCat(r.v, category).list THEN r
    ELSE IF ~GetCat(r.v, target_category).list THEN Raised
    ELSE Ok(DelCat(SetCat(r.v, target_category,
                          List(GetCat(r.v, target_category).items
                                   \o GetCat(r.v, category).items)),
                   category))

RECURSIVE MergeSources(_, _, _)
MergeSources(r, target_category, source_categories) ==
    IF source_categories = << >> THEN r
    ELSE MergeSources(MergeSource(r, target_category, Head(source_categories)),
                      target_category, Tail(source_categories))

\* "Ensure target category exists and is a list"
EnsureTarget(r, target_category) ==
    IF r.exc \/ HasCat(r.v, target_category) THEN r
    ELSE Ok(SetCat(r.v, target_category, List(<< >>)))

RECURSIVE MergeTargets(_, _)
MergeTargets(r, targets) ==
    IF targets = << >> THEN r
    ELSE MergeTargets(MergeSources(EnsureTarget(r, Head(targets).target),
                                   Head(targets).target, Head(targets).sources),
                      Tail(targets))

\* mutant: Weapons stays where the merge left it
WeaponsFirst_Unmoved(c) == c

\* 'Move "Weapons" category to the first key in the dictionary'
WeaponsFirst(c) ==
    IF HasCat(c, "Weapons")
    THEN << [k |-> "Weapons", val |-> GetCat(c, "Weapons")] >> \o DelCat(c, "Weapons")
    ELSE c

\* condense_categories(parsed_items): None when its try block caught an exception
condense_categories(c) ==
    LET r == MergeTargets(Ok(c), CATEGORIES_TO_MERGE) IN
    IF r.exc THEN None ELSE Ok(WeaponsFirst(r.v))

-----------------------------------------------------------------------------
(* The category condenser on its own. *)

\* the length of the longest category list
MaxCond == 2

\* the Id the records of category k carry
CondId ==
    ("Die" :> Str(<<"D">>)) @@ ("Hood" :> Str(<<"H">>)) @@ ("Armor" :> Str(<<"A">>))
        @@ ("MeleeWeapon" :> Str(<<"M","e">>)) @@ ("Helmet" :> Str(<<"H","e">>))
        @@ ("Weapons" :> Str(<<"W">>)) @@ ("QuickSlotContainer" :> Str(<<"Q">>))
        @@ ("MissileWeapon" :> Str(<<"M","i">>)) @@ ("Key" :> Str(<<"K">>))

\* the i-th record of category k
CondRecord(k, i) == (K("Id") :> CondId[k]) @@ (K("Name") :> Str(<<"n">>) \o StrOfInt(i))

CondList(k, n) == List([i \in 1..n |-> CondRecord(k, i)])

\* a category in every shape: absent, an empty list, a list of one, a list of
\* MaxCond, a single mapping
AnyShape(k) ==
    OptCat(k, {CondList(k, 0), CondList(k, 1), CondList(k, MaxCond),
               Dict(CondRecord(k, 1))})

\* absent or a list
ListShape(k) == OptCat(k, {CondList(k, 0), CondList(k, 1), CondList(k, MaxCond)})

CondenseInputs ==
    { die \o hood \o armor \o melee \o helmet \o weapons \o quick \o missile :
        die \in OptCat("Die", {CondList("Die", 1)}),
        hood \in AnyShape("Hood"),
        armor \in AnyShape("Armor"),
        melee \in AnyShape("MeleeWeapon"),
        helmet \in ListShape("Helmet"),
        weapons \in OptCat("Weapons", {CondList("Weapons", 1),
                                       Dict(CondRecord("Weapons", 1))}),
        quick \in ListShape("QuickSlotContainer"),
        missile \in ListShape("MissileWeapon") }

InitCondense ==
    /\ pc = "call_condense_categories"
    /\ \E c \in CondenseInputs : arg = [parsed_items |-> c]
    /\ ret = << >>
    /\ removed_counts = NoCounts
    /\ NoMainState

CallCondenseCategories ==
    /\ pc = "call_condense_categories"
    /\ ret' = condense_categories(arg.parsed_items)
    /\ pc' = "ret_condense_categories"
    /\ UNCHANGED << arg, removed_counts, mainVars >>

NextCondense == CallCondenseCategories

SpecCondense == InitCondense /\ [][NextCondense]_vars

\* the categories the merge mapping names
InvolvedCategories ==
    { "Armor", "Hood", "Helmet", "QuickSlotContainer",
      "Weapons", "MeleeWeapon", "MissileWeapon" }

AllInvolvedAreLists(c) ==
    \A i \in 1..Len(c) : c[i].k \in InvolvedCategories => c[i].val.list

\* the records of category k, none when it is absent
RecordsOf(c, k) == IF HasCat(c, k) THEN GetCat(c, k).items ELSE << >>

CountInvolved(c) ==
    Len(RecordsOf(c, "Armor")) + Len(RecordsOf(c, "Hood")) + Len(RecordsOf(c, "Helmet"))
        + Len(RecordsOf(c, "QuickSlotContainer")) + Len(RecordsOf(c, "Weapons"))
        + Len(RecordsOf(c, "MeleeWeapon")) + Len(RecordsOf(c, "MissileWeapon"))

\* C8: when all involved categories are lists, Armor is its input list followed
\* by the records of Hood, Helmet, QuickSlotContainer and Weapons is its input
\* list followed by the records of MeleeWeapon, MissileWeapon (each source in
\* listed order, its own order kept); the merged source keys are deleted; the
\* record count over the involved categories is unchanged.
C8_CondenseKeepsEveryRecord ==
    (pc = "ret_condense_categories" /\ AllInvolvedAreLists(arg.parsed_items)) =>
        /\ ~ret.exc /\ ~ret.none
        /\ HasCat(ret.v, "Armor") /\ GetCat(ret.v, "Armor").list
        /\ GetCat(ret.v, "Armor").items =
              RecordsOf(arg.parsed_items, "Armor") \o RecordsOf(arg.parsed_items, "Hood")
                  \o RecordsOf(arg.parsed_items, "Helmet")
                  \o RecordsOf(arg.parsed_items, "QuickSlotContainer")
        /\ HasCat(ret.v, "Weapons") /\ GetCat(ret.v, "Weapons").list
        /\ GetCat(ret.v, "Weapons").items =
              RecordsOf(arg.parsed_items, "Weapons")
                  \o RecordsOf(arg.parsed_items, "MeleeWeapon")
                  \o RecordsOf(arg.parsed_items, "MissileWeapon")
        /\ \A k \in InvolvedCategories \ {"Armor", "Weapons"} : ~HasCat(ret.v, k)
        /\ CountInvolved(ret.v) = CountInvolved(arg.parsed_items)

\* Armor, Hood and Helmet were non-empty lists and Weapons was absent
C8_Witness ==
    /\ pc = "ret_condense_categories"
    /\ AllInvolvedAreLists(arg.parsed_items)
    /\ Len(RecordsOf(arg.parsed_items, "Armor")) = MaxCond
    /\ Len(RecordsOf(arg.parsed_items, "Hood")) = MaxCond
    /\ Len(RecordsOf(arg.parsed_items, "Helmet")) = 1
    /\ ~HasCat(arg.parsed_items, "Weapons")
    /\ Len(RecordsOf(arg.parsed_items, "MissileWeapon")) = 1
    /\ Len(GetCat(ret.v, "Armor").items) = 2 * MaxCond + 1

-----------------------------------------------------------------------------
(* scripts/s04_parse_items.py: remove_items *)

KEY_FILTERS ==
    << Str(<<"_","e","m","p","t","y">>), Str(<<"d","u","e","l">>),
       Str(<<"_","b","r","o","k","e","n">>), Str(<<"t","o","r","c","h">>) >>

ICON_FILTERS == << Str(<<"t","r","a","f","f","i","c","C","o","n","e">>) >>

UI_NAME_FILTERS == << Str(<<"_","w","a","r","n","i","n","g">>) >>

KV_FILTERS == << [key |-> "SubClass", value |-> Str(<<"5">>)] >>

\* item.get(key, "") of a text attribute: the value, which is None for an
\* empty element, or "" when the item has no such key
GetText(item, n) == IF Has(item, n) THEN Get(item, n) ELSE << >>

\* any(filter_word.lower() in text.lower() for filter_word in filters):
\* text.lower() raises AttributeError when the text is no str
AnyFilterIn(filters, text) ==
    IF filters # << >> /\ ~IsStr(text) THEN Raised
    ELSE Ok(\E j \in 1..Len(filters) : Contains(Lower(text), Lower(filters[j])))

\* the key/value loop: filter_key in item and str(item[filter_key]) ==
\* filter_value
KvFilterHit(item) ==
    \E j \in 1..Len(KV_FILTERS) :
        /\ Has(item, KV_FILTERS[j].key)
        /\ StrEquals(Get(item, KV_FILTERS[j].key), KV_FILTERS[j].value)

\* the if/elif chain over the Name, the IconId and the UIName: a test is
\* evaluated only when the tests before it were false, and a test of a text
\* that is None raises
TextFilters(name, icon, ui_name) ==
    IF name.exc THEN "AttributeError"
    ELSE IF name.v THEN "key_filter"
    ELSE IF icon.exc THEN "AttributeError"
    ELSE IF icon.v THEN "icon_filter"
    ELSE IF ui_name.exc THEN "AttributeError"
    ELSE IF ui_name.v THEN "ui_name_filter"
    ELSE "keep"

\* mutant: a record without a Name goes through the filters that do not
\* read the Name
Rejection_NamelessFiltered(item) ==
    IF KvFilterHit(item) THEN "kv_filter"
    ELSE TextFilters(IF Has(item, "Name") THEN AnyFilterIn(KEY_FILTERS, Get(item, "Name"))
                                          ELSE Ok(FALSE),
                     AnyFilterIn(ICON_FILTERS, GetText(item, "IconId")),
                     AnyFilterIn(UI_NAME_FILTERS, GetText(item, "UIName")))

\* mutant: the Name filter is tried before the key/value filter
Rejection_NameFirst(item) ==
    IF ~Has(item, "Name") THEN "keep"
    ELSE IF AnyFilterIn(KEY_FILTERS, Get(item, "Name")).exc THEN "AttributeError"
    ELSE IF AnyFilterIn(KEY_FILTERS, Get(item, "Name")).v THEN "key_filter"
    ELSE IF KvFilterHit(item) THEN "kv_filter"
    ELSE TextFilters(Ok(FALSE),
                     AnyFilterIn(ICON_FILTERS, GetText(item, "IconId")),
                     AnyFilterIn(UI_NAME_FILTERS, GetText(item, "UIName")))

\* the body of the loop over items: the counter the record increments,
\* "keep" when the record is appended to filtered_items, or "AttributeError"
\* when a test raises
Rejection(item) ==
    IF ~Has(item, "Name") THEN "keep"
    ELSE IF KvFilterHit(item) THEN "kv_filter"
    ELSE TextFilters(AnyFilterIn(KEY_FILTERS, Get(item, "Name")),
                     AnyFilterIn(ICON_FILTERS, GetText(item, "IconId")),
                     AnyFilterIn(UI_NAME_FILTERS, GetText(item, "UIName")))

\* removed_counts[counter] += 1
Increment(counts, counter) == [counts EXCEPT ![counter] = @ + 1]

\* the loop over the items of one category; st = [items, counts, exc] holds
\* filtered_items and removed_counts, and exc once a record raised, which
\* ends the loop
RECURSIVE FilterItems(_, _)
FilterItems(items, st) ==
    IF items = << >> \/ st.exc THEN st
    ELSE FilterItems(Tail(items),
             IF Rejection(Head(items)) = "keep"
             THEN [st EXCEPT !.items = Append(@, Head(items))]
             ELSE IF Rejection(Head(items)) = "AttributeError"
             THEN [st EXCEPT !.exc = TRUE]
             ELSE [st EXCEPT !.counts = Increment(@, Rejection(Head(items)))])

\* the loop over categories from position i; categories that are not lists
\* are skipped; st = [v, counts, exc]; a category whose loop raised is not
\* replaced and no later category is visited
RECURSIVE FilterCategories(_, _)
FilterCategories(i, st) ==
    IF i > Len(st.v) \/ st.exc THEN st
    ELSE IF ~st.v[i].val.list THEN FilterCategories(i + 1, st)
    ELSE LET f == FilterItems(st.v[i].val.items,
                              [items |-> << >>, counts |-> st.counts, exc |-> FALSE])
         IN FilterCategories(i + 1,
                [v |-> IF f.exc THEN st.v ELSE [st.v EXCEPT ![i].val = List(f.items)],
                 counts |-> f.counts, exc |-> f.exc])

\* the try block of remove_items(parsed_items): the collection, the counters
\* and whether an exception reached the except clause
RemoveItemsRun(c) ==
    FilterCategories(1, [v |-> c,
                         counts |-> [key_filter |-> 0, icon_filter |-> 0,
                                     ui_name_filter |-> 0, kv_filter |-> 0],
                         exc |-> FALSE])

\* remove_items(parsed_items): None when the try block raised
remove_items(c) == IF RemoveItemsRun(c).exc THEN None ELSE Ok(RemoveItemsRun(c).v)

-----------------------------------------------------------------------------
(* The item filter on its own. *)

\* the length of the longest category list
MaxFilter == 2

FilterRecord(name, more) == (K("Id") :> Str(<<"F">>)) @@ (K("Name") :> name) @@ more

FilterPool ==
    { FilterRecord(Str(<<"s","w","o","r","d">>), EmptyMap),
      FilterRecord(Str(<<"T","o","r","c","h">>), K("SubClass") :> Str(<<"5">>)),
      FilterRecord(Str(<<"k","n","i","f","e">>), K("SubClass") :> Str(<<"5">>)),
      FilterRecord(Str(<<"D","u","e","l","_","s","w","o","r","d">>), K("SubClass") :> Str(<<"4">>)),
      FilterRecord(Str(<<"c","o","n","e">>),
          K("IconId") :> Str(<<"T","r","a","f","f","i","c","C","o","n","e","_","i","c","o","n">>)),
      FilterRecord(Str(<<"k","n","i","f","e">>),
          K("UIName") :> Str(<<"u","i","_","W","a","r","n","i","n","g">>)),
      FilterRecord(Str(<<"x","_","e","m","p","t","y">>),
          (K("IconId") :> Str(<<"t","r","a","f","f","i","c","C","o","n","e">>))
              @@ (K("UIName") :> Str(<<"_","w","a","r","n","i","n","g">>))),
      FilterRecord(Str(<<"s","w","o","r","d">>),
          (K("IconId") :> Str(<<"t","r","a","f","f","i","c","C","o","n","e">>))
              @@ (K("UIName") :> Str(<<"_","w","a","r","n","i","n","g">>))),
      (K("Id") :> Str(<<"F">>)) @@ (K("SubClass") :> Str(<<"5">>))
          @@ (K("IconId") :> Str(<<"t","r","a","f","f","i","c","C","o","n","e">>)),
      FilterRecord(NoneValue, EmptyMap),
      FilterRecord(NoneValue, K("SubClass") :> Str(<<"5">>)),
      FilterRecord(Str(<<"s","w","o","r","d">>), K("IconId") :> NoneValue),
      FilterRecord(Str(<<"T","o","r","c","h">>), K("IconId") :> NoneValue),
      FilterRecord(Str(<<"c","o","n","e">>),
          (K("IconId") :> Str(<<"t","r","a","f","f","i","c","C","o","n","e">>))
              @@ (K("UIName") :> NoneValue)),
      FilterRecord(Str(<<"s","w","o","r","d">>), K("UIName") :> NoneValue) }

FilterInputs ==
    { die \o << [k |-> "Weapons", val |-> List(w)] >> \o armor :
        die \in OptCat("Die", {Dict(FilterRecord(Str(<<"T","o","r","c","h">>), EmptyMap))}),
        w \in SeqUpTo(FilterPool, MaxFilter),
        armor \in OptCat("Armor",
                         {List(<< >>),
                          List(<< FilterRecord(Str(<<"T","o","r","c","h">>), K("SubClass") :> Str(<<"5">>)) >>)}) }

\* records with an attribute that is neither a text nor None: an IconId that
\* is a list, a Name that is a number, a UIName that is a mapping, a SubClass
\* that is the int 5; and two records of texts
TypedFilterPool ==
    { FilterRecord(Str(<<"s","w","o","r","d">>),
          K("IconId") :> Opaque(PyList(<< PyStr(Str(<<"a">>)), PyStr(Str(<<"b">>)) >>))),
      FilterRecord(IntValue(7), EmptyMap),
      FilterRecord(Str(<<"k","n","i","f","e">>), K("UIName") :> Opaque(PyDict(<< >>))),
      FilterRecord(Str(<<"k","n","i","f","e">>), K("SubClass") :> IntValue(5)),
      FilterRecord(Str(<<"T","o","r","c","h">>),
          K("IconId") :> Opaque(PyList(<< PyStr(Str(<<"a">>)), PyStr(Str(<<"b">>)) >>))),
      FilterRecord(Str(<<"s","w","o","r","d">>), EmptyMap) }

TypedFilterInputs ==
    { << [k |-> "Weapons", val |-> List(w)] >> \o armor :
        w \in SeqUpTo(TypedFilterPool, MaxFilter),
        armor \in OptCat("Armor",
                         {List(<< FilterRecord(Str(<<"T","o","r","c","h">>), K("SubClass") :> Str(<<"5">>)) >>)}) }

InitFilter ==
    /\ pc = "call_remove_items"
    /\ \/ \E c \in FilterInputs : arg = [parsed_items |-> c]
       \/ \E c \in TypedFilterInputs : arg = [parsed_items |-> c]
    /\ ret = << >>
    /\ removed_counts = NoCounts
    /\ NoMainState

CallRemoveItems ==
    /\ pc = "call_remove_items"
    /\ ret' = remove_items(arg.parsed_items)
    /\ removed_counts' = IF RemoveItemsRun(arg.parsed_items).exc THEN NoCounts
                         ELSE RemoveItemsRun(arg.parsed_items).counts
    /\ pc' = "ret_remove_items"
    /\ UNCHANGED << arg, mainVars >>

NextFilter == CallRemoveItems

SpecFilter == InitFilter /\ [][NextFilter]_vars

\* the positions << category, index >> of the records of the list categories
ListedRecords(c) ==
    { << i, j >> \in (1..Len(c)) \X (1..(MaxFilter + 1)) :
        c[i].val.list /\ j <= Len(c[i].val.items) }

NameRuleHit(item) ==
    ~AnyFilterIn(KEY_FILTERS, Get(item, "Name")).exc /\ AnyFilterIn(KEY_FILTERS, Get(item, "Name")).v

IconRuleHit(item) ==
    ~AnyFilterIn(ICON_FILTERS, GetText(item, "IconId")).exc /\ AnyFilterIn(ICON_FILTERS, GetText(item, "IconId")).v

UiNameRuleHit(item) ==
    ~AnyFilterIn(UI_NAME_FILTERS, GetText(item, "UIName")).exc /\ AnyFilterIn(UI_NAME_FILTERS, GetText(item, "UIName")).v

\* the input records with a Name that rule hit rejects and no rule of sooner
\* precedence does; rule 1 key/value, 2 Name, 3 icon, 4 UI name
FirstRejectedBy(c, rule) ==
    { p \in ListedRecords(c) :
        LET item == c[p[1]].val.items[p[2]] IN
        /\ Has(item, "Name")
        /\ CASE rule = 1 -> KvFilterHit(item)
             [] rule = 2 -> ~KvFilterHit(item) /\ NameRuleHit(item)
             [] rule = 3 -> ~KvFilterHit(item) /\ ~NameRuleHit(item) /\ IconRuleHit(item)
             [] rule = 4 -> ~KvFilterHit(item) /\ ~NameRuleHit(item) /\ ~IconRuleHit(item)
                               /\ UiNameRuleHit(item) }

\* C7: each counter is the number of records whose first matching rule, in the
\* precedence key/value, Name, icon, UI name, is the counter's rule, so a record
\* matching both the key/value rule and a Name rule counts under kv_filter only;
\* the four counters add up to the number of records removed.  (A call that
\* returns None removes no record and logs no counter.)
C7_OneCounterPerRemovedRecord ==
    (pc = "ret_remove_items" /\ ~ret.none) =>
        /\ removed_counts.kv_filter = Cardinality(FirstRejectedBy(arg.parsed_items, 1))
        /\ removed_counts.key_filter = Cardinality(FirstRejectedBy(arg.parsed_items, 2))
        /\ removed_counts.icon_filter = Cardinality(FirstRejectedBy(arg.parsed_items, 3))
        /\ removed_counts.ui_name_filter = Cardinality(FirstRejectedBy(arg.parsed_items, 4))
        /\ removed_counts.kv_filter + removed_counts.key_filter
              + removed_counts.icon_filter + removed_counts.ui_name_filter
           = Cardinality(ListedRecords(arg.parsed_items)) - Cardinality(ListedRecords(ret.v))

\* a record matching the key/value rule and a Name rule was removed together
\* with a record rejected by its icon
C7_Witness ==
    /\ pc = "ret_remove_items"
    /\ ~ret.none
    /\ \E p \in ListedRecords(arg.parsed_items) :
          LET item == arg.parsed_items[p[1]].val.items[p[2]] IN
          Has(item, "Name") /\ KvFilterHit(item) /\ NameRuleHit(item)
    /\ removed_counts.kv_filter = 1
    /\ removed_counts.key_filter = 0
    /\ removed_counts.icon_filter = 1

-----------------------------------------------------------------------------
(* scripts/s04_parse_items.py: add_display_names, proper_title_case *)

\* the characters str.isspace() holds of, as ranges of code points
WhitespaceRanges ==
    << <<9, 13>>, <<28, 32>>, <<133, 133>>, <<160, 160>>, <<5760, 5760>>,
       <<8192, 8202>>, <<8232, 8233>>, <<8239, 8239>>, <<8287, 8287>>,
       <<12288, 12288>> >>

\* the characters str.split() separates words at
Whitespace ==
    UNION { WhitespaceRanges[i][1]..WhitespaceRanges[i][2] : i \in 1..Len(WhitespaceRanges) }

\* text.split(): the maximal runs of characters that are not whitespace
RECURSIVE SplitAcc(_, _, _)
SplitAcc(text, word, words) ==
    IF text = << >>
    THEN IF word = << >> THEN words ELSE Append(words, word)
    ELSE IF Head(text) \in Whitespace
         THEN SplitAcc(Tail(text), << >>,
                       IF word = << >> THEN words ELSE Append(words, word))
         ELSE SplitAcc(Tail(text), Append(word, Head(text)), words)

Split(text) == SplitAcc(text, << >>, << >>)

\* sep.join(words)
RECURSIVE Join(_, _)
Join(words, sep) ==
    IF words = << >> THEN << >>
    ELSE IF Len(words) = 1 THEN words[1]
    ELSE words[1] \o sep \o Join(Tail(words), sep)

\* word.find(c): the 0-based position of the first c, -1 when there is none
Find(word, c) ==
    IF \E i \in 1..Len(word) : word[i] = c
    THEN (CHOOSE i \in 1..Len(word) :
              word[i] = c /\ \A j \in 1..(i - 1) : word[j] # c) - 1
    ELSE -1

\* mutant: everything after the apostrophe is lowercased
CapitalizeWord_LowersTail(word) ==
    LET apostrophe_pos == Find(word, Chr("'")) IN
    IF apostrophe_pos > 0 /\ apostrophe_pos < Len(word) - 1
    THEN UpperChar(word[1]) \o SubSeq(word, 2, apostrophe_pos + 1)
             \o Lower(SubSeq(word, apostrophe_pos + 2, Len(word)))
    ELSE UpperChar(word[1]) \o Lower(SubSeq(word, 2, Len(word)))

\* mutant: the character after the apostrophe is uppercased, as str.title()
\* does
CapitalizeWord_TitlesAfterApostrophe(word) ==
    LET apostrophe_pos == Find(word, Chr("'")) IN
    IF apostrophe_pos > 0 /\ apostrophe_pos < Len(word) - 1
    THEN UpperChar(word[1]) \o SubSeq(word, 2, apostrophe_pos + 1)
             \o UpperChar(word[apostrophe_pos + 2])
             \o SubSeq(word, apostrophe_pos + 3, Len(word))
    ELSE UpperChar(word[1]) \o Lower(SubSeq(word, 2, Len(word)))

\* the body of the loop over words, for a non-empty word
\* (word[k] of the source is word[k + 1] here)
CapitalizeWord(word) ==
    LET apostrophe_pos == Find(word, Chr("'")) IN
    IF apostrophe_pos > 0 /\ apostrophe_pos < Len(word) - 1
    THEN UpperChar(word[1]) \o SubSeq(word, 2, apostrophe_pos + 1)
             \o LowerChar(word[apostrophe_pos + 2])
             \o SubSeq(word, apostrophe_pos + 3, Len(word))
    ELSE UpperChar(word[1]) \o Lower(SubSeq(word, 2, Len(word)))

\* "if not text: return text" returns an empty text and None as they are
proper_title_case(text) ==
    IF text = << >> \/ text = NoneValue THEN text
    ELSE Join([i \in 1..Len(Split(text)) |-> CapitalizeWord(Split(text)[i])], Str(<< " " >>))

S_Null == Str(<<"N","u","l","l">>)

\* mutant: the first entry is taken whenever there is one
DisplayNameOf_FirstEntry(item, ui_text) ==
    IF ~Has(item, "UIName") THEN S_Null
    ELSE IF Get(item, "UIName") \notin DOMAIN ui_text THEN S_Null
    ELSE LET text_array == ui_text[Get(item, "UIName")] IN
         proper_title_case(IF Len(text_array) >= 1 THEN text_array[1] ELSE S_Null)

\* the value assigned to item["DisplayName"]
DisplayNameOf(item, ui_text) ==
    IF ~Has(item, "UIName") THEN S_Null
    ELSE IF Get(item, "UIName") \notin DOMAIN ui_text THEN S_Null
    ELSE LET text_array == ui_text[Get(item, "UIName")] IN
         proper_title_case(IF Len(text_array) > 1 THEN text_array[2]
                           ELSE IF Len(text_array) = 1 THEN text_array[1]
                           ELSE S_Null)

\* "ui_name in ui_text" raises TypeError for a UIName that is a mapping or a
\* list
UiNameRaises(c) ==
    \E i \in 1..Len(c) :
        /\ c[i].val.list
        /\ \E j \in 1..Len(c[i].val.items) :
               /\ Has(c[i].val.items[j], "UIName")
               /\ Unhashable(Get(c[i].val.items[j], "UIName"))

\* add_display_names(parsed_items, ui_text): categories that are not lists
\* and elements that are no mappings are skipped; None when the try block
\* caught an exception
add_display_names(c, ui_text) ==
    IF UiNameRaises(c) THEN None
    ELSE Ok([i \in 1..Len(c) |->
               IF ~c[i].val.list THEN c[i]
               ELSE [c[i] EXCEPT !.val =
                        List([j \in 1..Len(c[i].val.items) |->
                                IF ~IsDict(c[i].val.items[j]) THEN c[i].val.items[j]
                                ELSE Put(c[i].val.items[j], "DisplayName",
                                         DisplayNameOf(c[i].val.items[j], ui_text))])]])

-----------------------------------------------------------------------------
(* The title-casing function on its own. *)

\* the length of the longest text
MaxText == 5

TitleAlphabet == {Chr("a"), Chr("B"), Chr("'"), Chr(" ")}

S_servants_hood == Str(<<"s","e","r","v","a","n","t","'","s"," ","h","o","o","d">>)

S_obriens_axe == Str(<<"o","'","b","r","i","e","n","'","s"," ","a","x","e">>)

\* a word of accented letters, a word whose first letter has a capital of two
\* letters, words separated by a vertical tab and a no-break space, a word
\* whose first letter has its capital above Latin-1, a Greek word with a
\* capital sigma at its end and one inside, a word whose first letter has a
\* capital of three letters, a word with a capital that has a lowercase of two
\* letters, and words separated by an ogham space mark and an em space
S_elan == (<<233>> \o Str(<<"l">>) \o <<192>> \o Str(<<"n">>))

S_sharp_s == (<<223>> \o Str(<<"a","'">>) \o <<192>> \o Str(<<"b">>))

S_vertical_tab == (Str(<<"a">>) \o <<11>> \o Str(<<"b">>) \o <<160>> \o Str(<<"c">>))

S_y_diaeresis == << 255 >> \o Str(<<"e","s">>)

S_sigmas == << 963, 927, 931, 931 >>

S_iota_dialytika == << 912 >> \o Str(<<"a">>)

S_dotted_I == Str(<<"a">>) \o << 304 >>

S_ogham_space == Str(<<"a">>) \o << 5760 >> \o Str(<<"b">>) \o << 8195 >> \o Str(<<"c">>)

\* texts beyond the short ones: item names and a missing text
TitleExamples ==
    { S_servants_hood, S_obriens_axe, S_elan, S_sharp_s, S_vertical_tab,
      S_y_diaeresis, S_sigmas, S_iota_dialytika, S_dotted_I, S_ogham_space, NoneValue }

InitTitle ==
    /\ pc = "call_proper_title_case"
    /\ \E text \in SeqUpTo(TitleAlphabet, MaxText) \cup TitleExamples : arg = [text |-> text]
    /\ ret = << >>
    /\ removed_counts = NoCounts
    /\ NoMainState

CallProperTitleCase ==
    /\ pc = "call_proper_title_case"
    /\ ret' = proper_title_case(arg.text)
    /\ pc' = "ret_proper_title_case"
    /\ UNCHANGED << arg, removed_counts, mainVars >>

NextTitle == CallProperTitleCase

SpecTitle == InitTitle /\ [][NextTitle]_vars

\* the whitespace-delimited words of a text, each the run of the characters
\* between two cuts
WordsOf(text) ==
    LET cuts == {0, Len(text) + 1} \cup {i \in 1..Len(text) : text[i] \in Whitespace}
        starts == {i \in 1..Len(text) : (i - 1) \in cuts /\ i \notin cuts}
        EndOf(i) == (CHOOSE e \in cuts : e > i /\ \A f \in cuts : f > i => e <= f) - 1
        Nth(n) == CHOOSE i \in starts : Cardinality({s \in starts : s < i}) = n - 1
    IN [n \in 1..Cardinality(starts) |-> SubSeq(text, Nth(n), EndOf(Nth(n)))]

\* r is w with its first character uppercased, which may take up to three
\* characters, and the rest lowercased
FirstUpperRestLower(w, r) ==
    LET u == UpperChar(w[1]) IN
    /\ Len(r) >= Len(u)
    /\ SubSeq(r, 1, Len(u)) = u
    /\ SubSeq(r, Len(u) + 1, Len(r)) = Lower(Tail(w))

\* an apostrophe of w that is neither its first nor its last character
InnerApostrophes(w) == {p \in 2..(Len(w) - 1) : w[p] = Chr("'")}

\* C10 as stated: for a word with an apostrophe that is neither its first nor
\* its last character the character before the apostrophe is capitalized and
\* every character after it lowercased; every other word has its first
\* character uppercased and the rest lowercased.
C10_TitleCasePerWord ==
    pc = "ret_proper_title_case" =>
        /\ Len(WordsOf(ret)) = Len(WordsOf(arg.text))
        /\ \A n \in 1..Len(WordsOf(arg.text)) :
              LET w == WordsOf(arg.text)[n]
                  r == WordsOf(ret)[n]
              IN IF InnerApostrophes(w) # {}
                 THEN \E p \in InnerApostrophes(w) :
                          LET end == UpperChar(w[p - 1]) \o Str(<< "'" >>)
                                         \o Lower(SubSeq(w, p + 1, Len(w)))
                          IN /\ Len(r) >= Len(end)
                             /\ SubSeq(r, Len(r) - Len(end) + 1, Len(r)) = end
                 ELSE FirstUpperRestLower(w, r)

\* C10 amended: for a word whose first apostrophe is neither its first nor its
\* last character, the first character of the word is uppercased, the
\* character right after that apostrophe is lowercased and every other
\* character is unchanged; every other word has its first character uppercased
\* and the rest lowercased; the words are joined by single spaces.
C10_TitleCaseFirstApostrophe ==
    pc = "ret_proper_title_case" =>
        /\ Len(WordsOf(ret)) = Len(WordsOf(arg.text))
        /\ \A i \in 1..Len(ret) :
              ret[i] \in Whitespace => (ret[i] = Chr(" ") /\ 1 < i /\ i < Len(ret) /\ ret[i + 1] # Chr(" "))
        /\ \A n \in 1..Len(WordsOf(arg.text)) :
              LET w == WordsOf(arg.text)[n]
                  r == WordsOf(ret)[n]
                  p == IF InnerApostrophes(w) # {} /\ w[1] # Chr("'")
                       THEN CHOOSE q \in InnerApostrophes(w) :
                                \A q2 \in InnerApostrophes(w) : q <= q2
                       ELSE 0
              IN IF p # 0
                 THEN r = UpperChar(w[1]) \o SubSeq(w, 2, p)
                              \o LowerChar(w[p + 1])
                              \o SubSeq(w, p + 2, Len(w))
                 ELSE FirstUpperRestLower(w, r)

\* "a'BB" became "A'bB": only the character right after the apostrophe was
\* lowercased
C10_Witness ==
    /\ pc = "ret_proper_title_case"
    /\ arg.text = Str(<<"a", "'", "B", "B">>)
    /\ ret = Str(<<"A", "'", "b", "B">>)

-----------------------------------------------------------------------------
(* The display-name resolver on its own. *)

\* the length of the longest category list
MaxNames == 2

S_ui_a == Str(<<"u","i","_","a">>)

S_ui_b == Str(<<"u","i","_","b">>)

S_ui_c == Str(<<"u","i","_","c">>)

S_ui_d == Str(<<"u","i","_","d">>)

NamesRecord(ui_name) == (K("Id") :> Str(<<"N">>)) @@ (K("UIName") :> ui_name)

NamesPool ==
    { NamesRecord(S_ui_a), NamesRecord(S_ui_b), NamesRecord(S_ui_c), NamesRecord(S_ui_d),
      (K("Id") :> Str(<<"N">>)),
      (K("Id") :> Str(<<"N">>)) @@ (K("UIName") :> S_ui_c) @@ (K("DisplayName") :> Str(<<"o","l","d">>)) }

\* UI-text tables: no entry, one entry, two entries, three entries, and keys
\* that are missing
UiTextPool ==
    { EmptyMap,
      (S_ui_a :> << >>)
          @@ (S_ui_b :> << Str(<<"d","e","v"," ","L","A","B","E","L">>) >>)
          @@ (S_ui_c :> << Str(<<"d","e","v">>),
                           Str(<<"s","e","r","v","a","n","t","'","s"," "," ","h","o","o","d">>),
                           Str(<<"t","h","i","r","d">>) >>),
      (S_ui_a :> << Str(<<"d","e","v">>), Str(<<"L","O","N","G"," ","s","w","o","r","d">>) >>)
          @@ (S_ui_c :> << Str(<<"c","a","p">>) >>) }

NamesInputs ==
    { << [k |-> "Weapons", val |-> List(w)] >> \o die :
        w \in SeqUpTo(NamesPool, MaxNames),
        die \in OptCat("Die", {Dict(NamesRecord(S_ui_b)), List(<< NamesRecord(S_ui_c) >>)}) }

InitNames ==
    /\ pc = "call_add_display_names"
    /\ \E c \in NamesInputs, t \in UiTextPool : arg = [parsed_items |-> c, ui_text |-> t]
    /\ ret = << >>
    /\ removed_counts = NoCounts
    /\ NoMainState

CallAddDisplayNames ==
    /\ pc = "call_add_display_names"
    /\ ret' = add_display_names(arg.parsed_items, arg.ui_text)
    /\ pc' = "ret_add_display_names"
    /\ UNCHANGED << arg, removed_counts, mainVars >>

NextNames == CallAddDisplayNames

SpecNames == InitNames /\ [][NextNames]_vars

\* C9: after add_display_names every record of every list-valued category has a
\* DisplayName: "Null" without a UIName, "Null" when the UIName is not a key of
\* the UI-text table, "Null" when its entry list is empty, the title-cased
\* entry 0 when there is exactly one entry, the title-cased entry 1 when there
\* are two or more.
C9_DisplayNameResolution ==
    pc = "ret_add_display_names" =>
        /\ ~ret.exc /\ ~ret.none
        /\ Len(ret.v) = Len(arg.parsed_items)
        /\ \A i \in 1..Len(arg.parsed_items) :
              arg.parsed_items[i].val.list =>
                /\ ret.v[i].val.list
                /\ Len(ret.v[i].val.items) = Len(arg.parsed_items[i].val.items)
                /\ \A j \in 1..Len(arg.parsed_items[i].val.items) :
                      LET item == arg.parsed_items[i].val.items[j]
                          out == ret.v[i].val.items[j]
                          entries == arg.ui_text[Get(item, "UIName")]
                      IN /\ Has(out, "DisplayName")
                         /\ Get(out, "DisplayName") =
                              CASE ~Has(item, "UIName") -> S_Null
                                [] Has(item, "UIName")
                                     /\ Get(item, "UIName") \notin DOMAIN arg.ui_text -> S_Null
                                [] OTHER ->
                                     CASE Len(entries) = 0 -> S_Null
                                       [] Len(entries) = 1 -> proper_title_case(entries[1])
                                       [] Len(entries) >= 2 -> proper_title_case(entries[2])

\* a record whose UIName has three entries got the title-cased second entry,
\* next to a record without a UIName
C9_Witness ==
    /\ pc = "ret_add_display_names"
    /\ Len(arg.parsed_items[1].val.items) = 2
    /\ arg.parsed_items[1].val.items[1] = NamesRecord(S_ui_c)
    /\ ~Has(arg.parsed_items[1].val.items[2], "UIName")
    /\ S_ui_c \in DOMAIN arg.ui_text
    /\ Len(arg.ui_text[S_ui_c]) = 3
    /\ Get(ret.v[1].val.items[1], "DisplayName")
         = Str(<<"S","e","r","v","a","n","t","'","s"," ","H","o","o","d">>)
    /\ Get(ret.v[1].val.items[2], "DisplayName") = S_Null

-----------------------------------------------------------------------------
(* scripts/s04_parse_items.py: remove_at_signs, parse_items *)

\* mutant: one leading '@' is removed
StripKey_OneAtSign(k) == [at |-> IF k.at > 0 THEN k.at - 1 ELSE 0, name |-> k.name]

\* key.lstrip('@')
StripKey(k) == [at |-> 0, name |-> k.name]

\* The dict comprehension over the entries that are left: an entry whose
\* stripped key is in the result already replaces the value there and keeps
\* the place, another entry comes last
RECURSIVE StripAtSigns(_), StripEntries(_, _)
StripEntries(stripped, entries) ==
    IF entries = << >> THEN stripped
    ELSE StripEntries(SetCat(stripped, StripKey(Head(entries).k),
                             StripAtSigns(Head(entries).val)),
                      Tail(entries))

\* the value remove_at_signs returns: a mapping with its keys stripped and its
\* values treated the same way, a list with its elements treated the same
\* way, another value as it is
StripAtSigns(obj) ==
    IF obj.t = "dict" THEN PyDict(StripEntries(<< >>, obj.map))
    ELSE IF obj.t = "list"
    THEN PyList([i \in 1..Len(obj.items) |-> StripAtSigns(obj.items[i])])
    ELSE obj

\* remove_at_signs(obj): obj is a value read from JSON, the keys of its
\* mappings are K records; lstrip raises for no str
remove_at_signs(obj) == Ok(StripAtSigns(obj))

\* The steps after remove_at_signs read the stripped mapping as a collection:
\* the value of an attribute
Value(v) ==
    IF v.t = "str" THEN v.s
    ELSE IF v.t = "NoneType" THEN NoneValue
    ELSE Opaque(v)

\* a mapping as a record
Record(v) ==
    [k \in {v.map[i].k : i \in 1..Len(v.map)} |-> Value(GetCat(v.map, k))]

\* an element of a category list
Element(v) == IF v.t = "dict" THEN Record(v) ELSE NonDict :> Value(v)

\* a category value; the values that have no len are taken as None
Category(v) ==
    IF v.t = "list" THEN List([i \in 1..Len(v.items) |-> Element(v.items[i])])
    ELSE IF v.t = "dict" THEN Dict(Record(v))
    ELSE IF v.t = "str" THEN Leaf(v.s)
    ELSE Leaf(NoneValue)

\* The JSON object that holds given records: the entries of a record in some
\* order, a value that is no str as the Python value it is.
RECURSIVE RawEntries(_)
RawEntries(item) ==
    IF DOMAIN item = {} THEN << >>
    ELSE LET k == CHOOSE key \in DOMAIN item : TRUE IN
         << [k |-> k, val |-> PyValue(item[k])] >>
             \o RawEntries([key \in DOMAIN item \ {k} |-> item[key]])

RawElement(item) == IF IsDict(item) THEN PyDict(RawEntries(item)) ELSE PyValue(item[NonDict])

RawCategory(val) ==
    IF val.list THEN PyList([i \in 1..Len(val.items) |-> RawElement(val.items[i])])
    ELSE IF val.leaf THEN PyValue(val.v)
    ELSE PyDict(RawEntries(val.map))

RawCollection(c) ==
    PyDict([i \in 1..Len(c) |-> [k |-> K(c[i].k), val |-> RawCategory(c[i].val)]])

\* the stripped mapping of categories
Collection(obj) ==
    [i \in 1..Len(obj.map) |->
        [k |-> obj.map[i].k.name, val |-> Category(obj.map[i].val)]]

item_classes_to_remove ==
    { "AlchemyBase", "Ammo", "CraftingMaterial", "Document", "Food", "Herb",
      "MiscItem", "NPCTool", "Ointment", "PickableItem", "Poison" }

\* len(items) of a category value: the number of records of a list, the
\* number of keys of a single mapping, the number of characters of a str
LenOf(val) ==
    IF val.list THEN Len(val.items)
    ELSE IF val.leaf THEN Len(val.v)
    ELSE Cardinality(DOMAIN val.map)

\* len(items) raises TypeError for None
LenRaises(c) == \E i \in 1..Len(c) : c[i].val.leaf /\ c[i].val.v = NoneValue

RECURSIVE TotalItems(_)
TotalItems(c) == IF c = << >> THEN 0 ELSE LenOf(Head(c).val) + TotalItems(Tail(c))

\* mutant: no item class is removed
KeptCategories_All(entries) == entries

\* "del parsed_items[item_class]" for the item classes to remove, on the
\* entries of combined_items: a key with a leading '@' is no item class
KeptCategories(entries) ==
    SelectSeq(entries, LAMBDA e : e.k \notin { K(item_class) : item_class \in item_classes_to_remove })

\* "return {}" after a step returned None or an exception was caught
Failed(counts) == [out |-> << >>, raised |-> TRUE, counts |-> counts]

\* the count of the records and the return, named the outcome of
\* add_display_names
AfterNames(named, counts) ==
    IF named.none \/ LenRaises(named.v) THEN Failed(counts)
    ELSE [out |-> IF TotalItems(named.v) = 0 THEN << >> ELSE named.v,
          raised |-> FALSE, counts |-> counts]

\* add_display_names and what follows, filtered the outcome of remove_items
AfterFilter(filtered, text_ui) ==
    IF filtered.exc THEN Failed(NoCounts)
    ELSE Then(add_display_names(filtered.v, text_ui),
              LAMBDA named : AfterNames(named, filtered.counts))

\* remove_items and what follows, condensed the outcome of condense_categories
AfterCondense(condensed, text_ui) ==
    IF condensed.none THEN Failed(NoCounts)
    ELSE Then(RemoveItemsRun(condensed.v), LAMBDA filtered : AfterFilter(filtered, text_ui))

\* "del parsed_items["ItemAlias"]", condense_categories and what follows,
\* aliased the outcome of fix_alias
AfterAlias(aliased, text_ui) ==
    IF aliased.none THEN Failed(NoCounts)
    ELSE Then(condense_categories(DelCat(aliased.v, "ItemAlias")),
              LAMBDA condensed : AfterCondense(condensed, text_ui))

\* fix_alias and what follows, stripped the outcome of remove_at_signs
AfterStrip(stripped, text_ui) ==
    Then(Collection(stripped.v), LAMBDA parsed :
    Then(fix_alias(parsed), LAMBDA aliased : AfterAlias(aliased, text_ui)))

\* parse_items(root_dir, version_id, combined_items, text_ui_items, data):
\* combined is the mapping read from JSON; out is the collection returned
\* ({} is the empty collection), raised tells whether a step returned None or
\* the count of the records raised, counts are the counters remove_items
\* logged
ParseItemsRun(combined, text_ui) ==
    IF combined.map = << >> THEN [out |-> << >>, raised |-> FALSE, counts |-> NoCounts]
    ELSE Then(remove_at_signs(PyDict(KeptCategories(combined.map))),
              LAMBDA stripped : AfterStrip(stripped, text_ui))

parse_items(combined, text_ui) == ParseItemsRun(combined, text_ui).out

-----------------------------------------------------------------------------
(* scripts/s06_process_items.py *)

(* Float arithmetic and float(text), on the numbers defined above *)

\* a * 10^k, as a * 10^(k div 2) * 10^(k - k div 2) above 10^4
RECURSIVE BigMulPow10(_, _)
BigMulPow10(a, k) ==
    IF a = << >> THEN a
    ELSE IF k <= 4 THEN BigMulSmall(a, 10^k)
    ELSE BigMulPow10(BigMulPow10(a, k \div 2), k - k \div 2)

\* one division of the quotient st.q by d, the remainders so far kept in sticky
DivStep(st, d) ==
    IF st.q = << >> THEN st
    ELSE LET res == BigDivSmall(st.q, d) IN
         [q |-> res.q, sticky |-> st.sticky \/ res.r # 0]

\* [q |-> st.q div 10^k, sticky |-> a remainder was not 0], as the division
\* by 10^(k div 2) and then by 10^(k - k div 2) above 10^4
RECURSIVE BigDivPow10(_, _)
BigDivPow10(st, k) ==
    IF st.q = << >> THEN st
    ELSE IF k <= 4 THEN DivStep(st, 10^k)
    ELSE BigDivPow10(BigDivPow10(st, k \div 2), k - k \div 2)

\* the float nearest to (-1)^neg * d * 10^x: what float() makes of a decimal
\* numeral and what the true division of two ints makes of d / 10^(-x)
FromDecimal(neg, d, x) ==
    LET s == 60 + 4 * (0 - x)
        quot == IF x >= 0 THEN [q |-> BigMulPow10(d, x), sticky |-> FALSE]
                ELSE BigDivPow10([q |-> BigShl(d, s), sticky |-> FALSE], 0 - x)
    IN IF d = << >> THEN Zero(neg)
       ELSE IF x > 310 THEN Inf(neg)
       ELSE IF (BigBitLen(d) \div 3) + 1 + x < 0 - 330 THEN Zero(neg)
       ELSE RoundToDouble(neg, quot.q, IF x >= 0 THEN 0 ELSE 0 - s, quot.sticky)

\* x * y of two floats
FMul(x, y) ==
    LET neg == x.neg # y.neg IN
    IF x.kind = "nan" \/ y.kind = "nan" THEN NaN
    ELSE IF x.kind = "inf" \/ y.kind = "inf"
    THEN IF (x.kind = "fin" /\ x.m = << >>) \/ (y.kind = "fin" /\ y.m = << >>)
         THEN NaN ELSE Inf(neg)
    ELSE IF x.m = << >> \/ y.m = << >> THEN Zero(neg)
    ELSE RoundToDouble(neg, BigMul(x.m, y.m), x.e + y.e, FALSE)

\* x + y of two floats
FAdd(x, y) ==
    IF x.kind = "nan" \/ y.kind = "nan" THEN NaN
    ELSE IF x.kind = "inf"
    THEN IF y.kind = "inf" /\ y.neg # x.neg THEN NaN ELSE x
    ELSE IF y.kind = "inf" THEN y
    ELSE IF x.m = << >> /\ y.m = << >> THEN Zero(x.neg /\ y.neg)
    ELSE IF x.m = << >> THEN y
    ELSE IF y.m = << >> THEN x
    ELSE LET e == IF x.e < y.e THEN x.e ELSE y.e
             a == BigShl(x.m, x.e - e)
             b == BigShl(y.m, y.e - e)
             less == BigLess(a, b)
         IN IF x.neg # y.neg /\ a = b THEN Zero(FALSE)
            ELSE RoundToDouble(IF x.neg # y.neg /\ less THEN y.neg ELSE x.neg,
                               IF x.neg = y.neg THEN BigAdd(a, b)
                               ELSE IF less THEN BigSub(b, a) ELSE BigSub(a, b),
                               e, FALSE)

\* the int of a sign and a magnitude
IntOf(neg, a) == IF neg THEN 0 - BigToInt(a) ELSE BigToInt(a)

\* the integer part of the magnitude of a finite float
WholePart(x) == IF x.e >= 0 THEN BigShl(x.m, x.e) ELSE BigShr(x.m, 0 - x.e)

\* the finite float has a fractional part
HasFraction(x) == x.e < 0 /\ BigLowBits(x.m, 0 - x.e)

\* math.floor(x): OverflowError for an infinity, ValueError for nan
floor(x) ==
    IF x.kind = "inf" THEN [exc |-> "OverflowError", v |-> 0]
    ELSE IF x.kind = "nan" THEN [exc |-> "ValueError", v |-> 0]
    ELSE [exc |-> "",
          v |-> IF x.neg /\ HasFraction(x)
                THEN IntOf(TRUE, BigAdd(WholePart(x), BigOf(1)))
                ELSE IntOf(x.neg, WholePart(x))]

\* int(x) of a float: OverflowError for an infinity, ValueError for nan, the
\* value truncated toward zero otherwise
int(x) ==
    IF x.kind = "inf" THEN [exc |-> "OverflowError", v |-> 0]
    ELSE IF x.kind = "nan" THEN [exc |-> "ValueError", v |-> 0]
    ELSE [exc |-> "", v |-> IntOf(x.neg, WholePart(x))]


-----------------------------------------------------------------------------
(* float(text): the text is turned into ASCII (a white space character above *)
(* ASCII becomes a blank, a decimal digit of another script its ASCII digit, *)
(* any other character above ASCII a question mark); stripped of ASCII white *)
(* space it is a sign followed by inf, infinity or nan in any letter case,   *)
(* or by a decimal numeral (digits with single underscores between them, a   *)
(* point, an exponent); anything else is a ValueError.                       *)

DigitChars == Str(<< "0", "1", "2", "3", "4", "5", "6", "7", "8", "9" >>)

IsDigit(ch) == \E i \in 1..10 : DigitChars[i] = ch

DigitVal(ch) == (CHOOSE i \in 1..10 : DigitChars[i] = ch) - 1

\* the code points of the digit zero of every script with decimal digits
DecimalZeros ==
    << 48, 1632, 1776, 1984, 2406, 2534, 2662, 2790, 2918, 3046,
       3174, 3302, 3430, 3558, 3664, 3792, 3872, 4160, 4240, 6112,
       6160, 6470, 6608, 6784, 6800, 6992, 7088, 7232, 7248, 42528,
       43216, 43264, 43472, 43504, 43600, 44016, 65296, 66720, 68912, 69734,
       69872, 69942, 70096, 70384, 70736, 70864, 71248, 71360, 71472, 71904,
       72016, 72784, 73040, 73120, 92768, 92864, 93008, 120782, 120792, 120802,
       120812, 120822, 123200, 123632, 125264, 130032 >>

\* the character _PyUnicode_TransformDecimalAndSpaceToASCII puts for ch
AsciiOf(ch) ==
    IF ch < 127 THEN ch
    ELSE IF ch \in Whitespace THEN Chr(" ")
    ELSE IF \E i \in 1..Len(DecimalZeros) : DecimalZeros[i] <= ch /\ ch <= DecimalZeros[i] + 9
    THEN Chr("0") + ch - DecimalZeros[CHOOSE i \in 1..Len(DecimalZeros) :
                                         DecimalZeros[i] <= ch /\ ch <= DecimalZeros[i] + 9]
    ELSE Chr("?")

\* the characters float() strips from both ends of the ASCII text: blank, tab,
\* line feed, vertical tab, form feed and carriage return
FloatWhitespace == (9..13) \cup {32}

\* the text float() parses, without the whitespace at its ends
RECURSIVE StripLeft(_)
StripLeft(s) ==
    IF s # << >> /\ Head(s) \in FloatWhitespace THEN StripLeft(Tail(s)) ELSE s

RECURSIVE StripRight(_)
StripRight(s) ==
    IF s # << >> /\ s[Len(s)] \in FloatWhitespace
    THEN StripRight(SubSeq(s, 1, Len(s) - 1)) ELSE s

Strip(s) == StripRight(StripLeft(s))

\* the first position of one of the characters in s, 0 when there is none
FirstOf(s, chs) ==
    IF \E i \in 1..Len(s) : s[i] \in chs
    THEN CHOOSE i \in 1..Len(s) : s[i] \in chs /\ \A j \in 1..(i - 1) : s[j] \notin chs
    ELSE 0

\* digits, with single underscores between digits only
DigitsOK(s) ==
    /\ s # << >>
    /\ \A i \in 1..Len(s) :
          \/ IsDigit(s[i])
          \/ s[i] = Chr("_") /\ i > 1 /\ i < Len(s) /\ IsDigit(s[i - 1]) /\ IsDigit(s[i + 1])

\* the digits of s without the underscores
OnlyDigits(s) == SelectSeq(s, IsDigit)

\* the natural written by at most four digits
RECURSIVE SmallOfDigits(_)
SmallOfDigits(s) ==
    IF s = << >> THEN 0
    ELSE SmallOfDigits(SubSeq(s, 1, Len(s) - 1)) * 10 + DigitVal(s[Len(s)])

\* the natural written by the digits, four digits at a time
RECURSIVE BigOfDigits(_)
BigOfDigits(s) ==
    IF Len(s) <= 4 THEN BigOf(SmallOfDigits(s))
    ELSE BigAdd(BigMulSmall(BigOfDigits(SubSeq(s, 1, Len(s) - 4)), 10^4),
                BigOf(SmallOfDigits(SubSeq(s, Len(s) - 3, Len(s)))))

\* the natural written by the digits of an exponent, 10^5 when it is more
RECURSIVE ExpOfDigits(_)
ExpOfDigits(s) ==
    IF s = << >> THEN 0
    ELSE LET n == ExpOfDigits(SubSeq(s, 1, Len(s) - 1)) * 10 + DigitVal(s[Len(s)])
         IN IF n > 10^5 THEN 10^5 ELSE n

ValueError == [kind |-> "ValueError", neg |-> FALSE, m |-> << >>, e |-> 0]

\* the float of an unsigned decimal numeral, ValueError when it is not one
ParseDecimal(neg, s) ==
    LET epos == FirstOf(s, {Chr("e"), Chr("E")})
        mant == IF epos = 0 THEN s ELSE SubSeq(s, 1, epos - 1)
        expo == IF epos = 0 THEN << >> ELSE SubSeq(s, epos + 1, Len(s))
        esigned == expo # << >> /\ expo[1] \in {Chr("+"), Chr("-")}
        edigits == IF esigned THEN Tail(expo) ELSE expo
        dot == FirstOf(mant, {Chr(".")})
        whole == IF dot = 0 THEN mant ELSE SubSeq(mant, 1, dot - 1)
        frac == IF dot = 0 THEN << >> ELSE SubSeq(mant, dot + 1, Len(mant))
        wellFormed == /\ whole = << >> \/ DigitsOK(whole)
                      /\ frac = << >> \/ DigitsOK(frac)
                      /\ whole # << >> \/ frac # << >>
                      /\ epos # 0 => DigitsOK(edigits)
        exponent == IF esigned /\ expo[1] = Chr("-")
                    THEN 0 - ExpOfDigits(OnlyDigits(edigits))
                    ELSE ExpOfDigits(OnlyDigits(edigits))
    IN IF ~wellFormed THEN ValueError
       ELSE FromDecimal(neg, BigOfDigits(OnlyDigits(whole) \o OnlyDigits(frac)),
                        exponent - Len(OnlyDigits(frac)))

\* float(text) of a str
ParseFloat(text) ==
    LET s == Strip([i \in 1..Len(text) |-> AsciiOf(text[i])])
        signed == s # << >> /\ s[1] \in {Chr("+"), Chr("-")}
        neg == signed /\ s[1] = Chr("-")
        body == IF signed THEN Tail(s) ELSE s
    IN IF Lower(body) \in {Str(<<"i","n","f">>), Str(<<"i","n","f","i","n","i","t","y">>)}
       THEN Inf(neg)
       ELSE IF Lower(body) = Str(<<"n","a","n">>) THEN NaN
       ELSE ParseDecimal(neg, body)

\* the outcome of float(text): the float parsed, or the ValueError
Parsed(parsed) ==
    IF parsed = ValueError THEN [exc |-> "ValueError", v |-> NaN]
    ELSE [exc |-> "", v |-> parsed]

\* float(value): [exc, v], exc the exception raised or "" with v the float
float(value) ==
    IF value.t = "str" THEN Parsed(ParseFloat(value.s))
    ELSE IF value.t \in {"int", "bool"}
    THEN [exc |-> "", v |-> FloatOfInt(IF value.t = "int" THEN value.n
                                       ELSE IF value.b THEN 1 ELSE 0)]
    ELSE IF value.t = "float" THEN [exc |-> "", v |-> value.x]
    ELSE [exc |-> "TypeError", v |-> NaN]

\* value is None or value == "" or value.lower() == "n/a" of a str
IsBlank(value) ==
    \/ value.t = "NoneType"
    \/ value.t = "str" /\ (value.s = << >> \/ Lower(value.s) = Str(<<"n","/","a">>))

\* except (ValueError, TypeError): return default
Except(outcome, default) ==
    IF outcome.exc \in {"ValueError", "TypeError"} THEN [exc |-> "", v |-> default]
    ELSE outcome

\* int(float(value)), given the outcome of float(value)
IntOfFloat(converted) == IF converted.exc # "" THEN converted ELSE int(converted.v)

\* safe_int(value): [exc, v]; ValueError and TypeError are caught and give 0,
\* any other exception leaves the function
safe_int(value) ==
    IF IsBlank(value) THEN [exc |-> "", v |-> 0]
    ELSE Except(IntOfFloat(float(value)), 0)

\* safe_float(value): the float, 0.0 when float() raises
safe_float(value) ==
    IF IsBlank(value) THEN Zero(FALSE)
    ELSE Except(float(value), Zero(FALSE)).v

Half == Fin(FALSE, BigShl(BigOf(1), 52), 0 - 53)

\* round_up_half(value) of a float: [exc, v]
round_up_half(value) == floor(FAdd(value, Half))

-----------------------------------------------------------------------------
(* process_single_item and process_items *)

\* a <= b of two str: by code point at the first difference, a prefix first
RECURSIVE StrLeq(_, _)
StrLeq(a, b) ==
    IF a = << >> THEN TRUE
    ELSE IF b = << >> THEN FALSE
    ELSE IF Head(a) = Head(b) THEN StrLeq(Tail(a), Tail(b))
    ELSE Head(a) < Head(b)

\* item.get(key, "") of an attribute that is copied whole
GetOr(item, n, default) == IF Has(item, n) THEN Get(item, n) ELSE default

\* processed[key] = item[key] when the item has the key
Copy(processed, item, n, as) ==
    IF Has(item, n) THEN Put(processed, as, Get(item, n)) ELSE processed

\* processed[as] = safe_int(item[key]) when the item has the key
CopyInt(processed, item, n, as) ==
    IF Has(item, n) THEN Put(processed, as, safe_int(PyValue(Get(item, n))).v) ELSE processed

\* the value an attribute of the record holds
Attr(item, n) == PyValue(Get(item, n))

\* safe_float(item["Weight"]) * 10
WeightTimes10(item) == FMul(safe_float(Attr(item, "Weight")), FloatOfInt(10))

\* safe_float(item["Price"]) * 0.1
PriceTimesTenth(item) ==
    FMul(safe_float(Attr(item, "Price")), FromDecimal(FALSE, BigOf(1), 0 - 1))

\* 50 + (safe_float(item[key]) * 50)
FiftyPlus50Times(item, n) ==
    FAdd(FloatOfInt(50), FMul(safe_float(Attr(item, n)), FloatOfInt(50)))

\* safe_float(item["Noise"]) * 100
NoiseTimes100(item) == FMul(safe_float(Attr(item, "Noise")), FloatOfInt(100))

\* attack * mod of the attack and the modifier attribute
AttackTimes(item, n) ==
    FMul(FloatOfInt(safe_int(Attr(item, "Attack")).v), safe_float(Attr(item, n)))

\* the source attribute of every stat
STAT_SOURCE ==
    [ weight |-> "Weight", price |-> "Price", maxQuality |-> "MaxQuality",
      durability |-> "MaxStatus", strReq |-> "StrReq", agiReq |-> "AgiReq",
      charisma |-> "Charisma", conspicuousness |-> "Conspicuousness", noise |-> "Noise",
      visibility |-> "Visibility", defense |-> "Defense", defenseSlash |-> "DefenseSlash",
      defenseSmash |-> "DefenseSmash", defenseStab |-> "DefenseStab", attack |-> "Attack",
      attackModSlash |-> "AttackModSlash", attackSlash |-> "AttackModSlash",
      attackModSmash |-> "AttackModSmash", attackSmash |-> "AttackModSmash",
      attackModStab |-> "AttackModStab", attackStab |-> "AttackModStab" ]

\* the stats assigned inside if "Attack" in item
ATTACK_STATS ==
    { "attackModSlash", "attackSlash", "attackModSmash", "attackSmash",
      "attackModStab", "attackStab" }

\* n / 10 of an int: the float nearest to the quotient
DividedBy10(n) == FromDecimal(n < 0, BigOf(IF n < 0 THEN 0 - n ELSE n), 0 - 1)

\* round_up_half(...) / 10, given the outcome of round_up_half
Tenth(rounded) == [exc |-> rounded.exc, v |-> DividedBy10(rounded.v)]

\* the float handed to round_up_half for a stat that is rounded
RoundedArgument(item, stat) ==
    CASE stat = "weight" -> WeightTimes10(item)
      [] stat = "price" -> PriceTimesTenth(item)
      [] stat = "noise" -> NoiseTimes100(item)
      [] stat \in {"conspicuousness", "visibility"} -> FiftyPlus50Times(item, STAT_SOURCE[stat])
      [] OTHER -> AttackTimes(item, STAT_SOURCE[stat])

ROUNDED_STATS ==
    { "weight", "price", "noise", "conspicuousness", "visibility",
      "attackSlash", "attackSmash", "attackStab" }

\* the evaluation of the value assigned to stats[stat]: [exc, v]
StatOutcome(item, stat) ==
    CASE stat = "weight" -> Tenth(round_up_half(RoundedArgument(item, stat)))
      [] stat \in ROUNDED_STATS \ {"weight"} -> round_up_half(RoundedArgument(item, stat))
      [] stat \in {"attackModSlash", "attackModSmash", "attackModStab"} ->
           [exc |-> "", v |-> safe_float(Attr(item, STAT_SOURCE[stat]))]
      [] OTHER -> safe_int(Attr(item, STAT_SOURCE[stat]))

\* the stats the record gets: a stat for every source attribute of the record,
\* the attack modifiers and their products only next to Attack
PresentStats(item) ==
    { stat \in DOMAIN STAT_SOURCE :
        /\ Has(item, STAT_SOURCE[stat])
        /\ stat \in ATTACK_STATS => Has(item, "Attack") }

\* the stats object
Stats(item) ==
    [ k \in { K(stat) : stat \in PresentStats(item) } |-> StatOutcome(item, k.name).v ]

\* if stats: processed["stats"] = stats
WithStats(stats) == IF DOMAIN stats # {} THEN K("stats") :> stats ELSE EmptyMap

\* processed["slots"] = safe_int(item["NumberOfQuickSlots"])
Slots(item) ==
    IF Has(item, "NumberOfQuickSlots")
    THEN K("slots") :> safe_int(Attr(item, "NumberOfQuickSlots")).v
    ELSE EmptyMap

\* the words converted with safe_int, [] when a conversion raises
SideValuesOf(words) ==
    LET converted == [i \in 1..Len(words) |-> safe_int(PyStr(words[i]))] IN
    IF \E i \in 1..Len(words) : converted[i].exc # "" THEN << >>
    ELSE [i \in 1..Len(words) |-> converted[i].v]

\* bool(value) of a Python value
Truthy(value) ==
    CASE value.t = "str" -> value.s # << >>
      [] value.t = "int" -> value.n # 0
      [] value.t = "float" -> value.x.kind # "fin" \/ value.x.m # << >>
      [] value.t = "bool" -> value.b
      [] value.t = "list" -> value.items # << >>
      [] value.t = "dict" -> value.map # << >>
      [] OTHER -> FALSE

\* processed[as] = [safe_int(w) for w in item[key].split()] of a value that
\* is true; a value that is no str has no split, and the except clause puts []
SideList(item, n, as) ==
    IF Has(item, n) /\ Truthy(Attr(item, n))
    THEN K(as) :> IF IsStr(Get(item, n)) THEN SideValuesOf(Split(Get(item, n))) ELSE << >>
    ELSE EmptyMap

\* the ids the branch of the category hands to safe_int
TypeIds(item, category) ==
    IF category = "Armor" /\ Has(item, "armorTypeId") /\ Has(item, "armorTypeName")
    THEN {"armorTypeId"}
    ELSE IF category = "Weapons" /\ Has(item, "weaponTypeId") /\ Has(item, "weaponTypeName")
    THEN {"weaponTypeId"}
    ELSE IF category = "DiceBadge" THEN {"badgeTypeId", "badgeSubTypeId"}
    ELSE {}

\* process_single_item raises: an element that is no mapping has no get, a
\* categoryName that is no str has no lower, safe_int of an infinity, or
\* round_up_half of an infinity or of nan, outside a try block
ItemRaises(item, category) ==
    \/ ~IsDict(item)
    \/ Has(item, "categoryName") /\ ~IsStr(Get(item, "categoryName"))
    \/ \E n \in {"categoryId", "uiSlotId", "NumberOfQuickSlots"} \cup TypeIds(item, category) :
           Has(item, n) /\ safe_int(Attr(item, n)).exc # ""
    \/ \E stat \in PresentStats(item) : StatOutcome(item, stat).exc # ""

\* the base properties
BaseProperties(item) ==
    (K("id") :> GetOr(item, "Id", << >>))
        @@ (K("name") :> GetText(item, "Name"))
        @@ (K("displayName") :> GetText(item, "DisplayName"))
        @@ (K("uiName") :> GetText(item, "UIName"))
        @@ (K("iconId") :> GetText(item, "IconId"))
        @@ (K("uiInfo") :> GetOr(item, "UIInfo", << >>))

\* the category information
WithCategory(processed, item) ==
    IF Has(item, "categoryName")
    THEN Put(Put(CopyInt(processed, item, "categoryId", "categoryId"),
                 "categoryName", Get(item, "categoryName")),
             "category", Lower(Get(item, "categoryName")))
    ELSE CopyInt(processed, item, "categoryId", "categoryId")

\* the UI slot information
WithUiSlot(processed, item) ==
    Copy(CopyInt(processed, item, "uiSlotId", "uiSlotId"), item, "uiSlotName", "uiSlotName")

\* the attributes of the type of the category
WithType(processed, item, category) ==
    IF category = "Armor" /\ Has(item, "armorTypeId") /\ Has(item, "armorTypeName")
    THEN Copy(CopyInt(processed, item, "armorTypeId", "armorTypeId"),
              item, "armorTypeName", "armorTypeName")
    ELSE IF category = "Weapons" /\ Has(item, "weaponTypeId") /\ Has(item, "weaponTypeName")
    THEN Copy(Copy(CopyInt(processed, item, "weaponTypeId", "weaponTypeId"),
                   item, "weaponTypeName", "weaponTypeName"),
              item, "ammo", "ammo")
    ELSE IF category = "DiceBadge"
    THEN Copy(CopyInt(Copy(CopyInt(processed, item, "badgeTypeId", "badgeTypeId"),
                           item, "badgeTypeName", "badgeTypeName"),
                      item, "badgeSubTypeId", "badgeSubTypeId"),
              item, "badgeSubTypeName", "badgeSubTypeName")
    ELSE processed

\* process_single_item(item, category) of a record on which no helper raises
process_single_item(item, category) ==
    Copy(WithType(WithUiSlot(WithCategory(BaseProperties(item), item), item), item, category),
         item, "Clothing", "clothing")
        @@ Slots(item) @@ SideList(item, "SideWeights", "sideWeights")
        @@ SideList(item, "SideValues", "sideValues")
        @@ WithStats(Stats(item))

\* x < y of two floats; no float is less than nan, nor nan less than one
FloatLess(x, y) ==
    IF x.kind = "nan" \/ y.kind = "nan" THEN FALSE
    ELSE IF x.kind = "inf" THEN x.neg /\ ~(y.kind = "inf" /\ y.neg)
    ELSE IF y.kind = "inf" THEN ~y.neg
    ELSE IF x.m = << >> THEN y.m # << >> /\ ~y.neg
    ELSE IF y.m = << >> THEN x.neg
    ELSE IF x.neg # y.neg THEN x.neg
    ELSE IF x.neg THEN y.e < x.e \/ (y.e = x.e /\ BigLess(y.m, x.m))
    ELSE x.e < y.e \/ (x.e = y.e /\ BigLess(x.m, y.m))

\* the float of an int, a bool or a float
FloatOf(v) ==
    IF v.t = "float" THEN v.x
    ELSE FloatOfInt(IF v.t = "int" THEN v.n ELSE IF v.b THEN 1 ELSE 0)

IsNumeric(v) == v.t \in {"int", "float", "bool"}

\* the floats of two numbers
Floats(a, b) == [v \in {a, b} |-> FloatOf(v)]

\* a == b of two values read from JSON, as the comparison of two lists tests
\* its elements: an object equals itself (the one NaN of a decoded document
\* too), numbers are equal by value
RECURSIVE PyEq(_, _)
PyEq(a, b) ==
    IF a = b THEN TRUE
    ELSE IF IsNumeric(a) /\ IsNumeric(b)
    THEN \E f \in { Floats(a, b) } :
             /\ f[a].kind # "nan" /\ f[b].kind # "nan"
             /\ \A pair \in { << a, b >>, << b, a >> } : ~FloatLess(f[pair[1]], f[pair[2]])
    ELSE IF a.t = "list" /\ b.t = "list"
    THEN /\ Len(a.items) = Len(b.items)
         /\ \A i \in 1..Len(a.items) : PyEq(a.items[i], b.items[i])
    ELSE IF a.t = "dict" /\ b.t = "dict"
    THEN /\ Len(a.map) = Len(b.map)
         /\ \A i \in 1..Len(a.map) : \E j \in 1..Len(b.map) :
               a.map[i].k = b.map[j].k /\ PyEq(a.map[i].val, b.map[j].val)
    ELSE FALSE

\* the first place from i on at which two lists have elements that are not
\* equal, 0 when one list ends before
RECURSIVE FirstDiffer(_, _, _)
FirstDiffer(x, y, i) ==
    IF i > Len(x) \/ i > Len(y) THEN 0
    ELSE IF PyEq(x[i], y[i]) THEN FirstDiffer(x, y, i + 1)
    ELSE i

\* a < b of two values read from JSON: "T", "F", or "E" when it raises
\* TypeError.  Two str compare by code point, two numbers by value, two lists
\* by their first elements that are not equal, or by length when one is the
\* beginning of the other; no other two values have an order
RECURSIVE PyLess(_, _)
PyLess(a, b) ==
    IF a.t = "str" /\ b.t = "str"
    THEN IF a.s # b.s /\ StrLeq(a.s, b.s) THEN "T" ELSE "F"
    ELSE IF IsNumeric(a) /\ IsNumeric(b)
    THEN IF \E f \in { Floats(a, b) } : FloatLess(f[a], f[b]) THEN "T" ELSE "F"
    ELSE IF a.t = "list" /\ b.t = "list"
    THEN CHOOSE result \in
             { IF at = 0 THEN IF Len(a.items) < Len(b.items) THEN "T" ELSE "F"
               ELSE PyLess(a.items[at], b.items[at]) :
               at \in { FirstDiffer(a.items, b.items, 1) } } : TRUE
    ELSE "E"

\* key(x) < key(y) of two processed items
KeyLess(x, y) == PyLess(PyValue(Get(x, "displayName")), PyValue(Get(y, "displayName")))

\* what key(items[i]) < key(items[j]) gives, for the items as they are before
\* the sort: list.sort moves the items, order is the sequence of the places
\* they came from and less[i][j] the comparison of the items from places i, j
Comparisons(items) ==
    [i \in 1..Len(items) |-> [j \in 1..Len(items) |-> KeyLess(items[i], items[j])]]

\* merge_compute_minrun of list.sort: the length that short runs are extended
\* to, n itself for fewer than 64 items and 32 to 64 for more
RECURSIVE MinRun(_, _)
MinRun(n, r) ==
    IF n >= 64 THEN MinRun(n \div 2, IF n % 2 = 1 THEN 1 ELSE r) ELSE n + r

\* the places after the second of the run at lo whose item does not continue
\* the run, or cannot be compared with the item before it
RunStops(order, less, lo, descending) ==
    { i \in (lo + 2)..Len(order) :
        \/ less[order[i]][order[i - 1]] = "E"
        \/ (less[order[i]][order[i - 1]] = "T") # descending }

\* the run that ends before the first of the stops
RunBefore(order, less, lo, descending, stops) ==
    IF stops = {}
    THEN [n |-> Len(order) - lo + 1, descending |-> descending, exc |-> FALSE]
    ELSE CHOOSE run \in
             { [n |-> stop - lo, descending |-> descending,
                exc |-> less[order[stop]][order[stop - 1]] = "E"] :
               stop \in { s \in stops : \A t \in stops : s <= t } } : TRUE

\* count_run of list.sort: the length of the run that begins at the place lo,
\* a run being ascending (no item less than the one before it) or strictly
\* descending
CountRun(order, less, lo) ==
    IF lo = Len(order) THEN [n |-> 1, descending |-> FALSE, exc |-> FALSE]
    ELSE IF less[order[lo + 1]][order[lo]] = "E"
    THEN [n |-> 0, descending |-> FALSE, exc |-> TRUE]
    ELSE RunBefore(order, less, lo, less[order[lo + 1]][order[lo]] = "T",
                   RunStops(order, less, lo, less[order[lo + 1]][order[lo]] = "T"))

\* mutant: the place of the pivot is before the items that are not less
RECURSIVE Bisect_BeforeEquals(_, _, _, _, _)
Bisect_BeforeEquals(order, less, pivot, l, r) ==
    IF less[order[l + ((r - l) \div 2) + 1]][pivot] = "E" THEN 0 - 1
    ELSE IF less[order[l + ((r - l) \div 2) + 1]][pivot] = "F"
    THEN IF l < l + ((r - l) \div 2)
         THEN Bisect_BeforeEquals(order, less, pivot, l, l + ((r - l) \div 2))
         ELSE l
    ELSE IF l + ((r - l) \div 2) + 1 < r
    THEN Bisect_BeforeEquals(order, less, pivot, l + ((r - l) \div 2) + 1, r)
    ELSE l + ((r - l) \div 2) + 1

\* the binary search of binarysort: the number of items of the sorted run
\* order[l + 1 .. r] and of those before it that stay before the pivot, -1
\* when a comparison raises; the item looked at is the one in the middle,
\* at l + (r - l) // 2 counted from 0
RECURSIVE Bisect(_, _, _, _, _)
Bisect(order, less, pivot, l, r) ==
    IF less[pivot][order[l + ((r - l) \div 2) + 1]] = "E" THEN 0 - 1
    ELSE IF less[pivot][order[l + ((r - l) \div 2) + 1]] = "T"
    THEN IF l < l + ((r - l) \div 2)
         THEN Bisect(order, less, pivot, l, l + ((r - l) \div 2))
         ELSE l
    ELSE IF l + ((r - l) \div 2) + 1 < r
    THEN Bisect(order, less, pivot, l + ((r - l) \div 2) + 1, r)
    ELSE l + ((r - l) \div 2) + 1

\* the order with the item at start + 1 moved to the place after the first at
Inserted(order, at, start) ==
    SubSeq(order, 1, at) \o << order[start + 1] >> \o SubSeq(order, at + 1, start)
        \o SubSeq(order, start + 2, Len(order))

\* the n items from the place lo on are reversed
RunReversed(order, lo, n) ==
    SubSeq(order, 1, 0)
        \o [i \in 1..Len(order) |->
              IF lo <= i /\ i < lo + n THEN order[2 * lo + n - 1 - i] ELSE order[i]]

\* a comparison of gallop_left (an item of the run with the key) and of
\* gallop_right (the key with an item of the run); at counts from 0
GallopTest(run, less, key, left, at) ==
    IF left THEN less[run[at + 1]][key] ELSE less[key][run[at + 1]]

\* the galloping of gallop_left and gallop_right: the offset from the hint
\* grows (1, 3, 7, ...) while the comparison gives go, up to maxofs
RECURSIVE GallopOffsets(_, _, _, _, _, _, _, _, _, _)
GallopOffsets(run, less, key, left, hint, sign, go, lastofs, ofs, maxofs) ==
    IF ofs >= maxofs THEN [lastofs |-> lastofs, ofs |-> maxofs, exc |-> FALSE]
    ELSE IF GallopTest(run, less, key, left, hint + sign * ofs) = "E"
    THEN [lastofs |-> 0, ofs |-> 0, exc |-> TRUE]
    ELSE IF GallopTest(run, less, key, left, hint + sign * ofs) = go
    THEN GallopOffsets(run, less, key, left, hint, sign, go, ofs, 2 * ofs + 1, maxofs)
    ELSE [lastofs |-> lastofs, ofs |-> ofs, exc |-> FALSE]

\* the binary search that ends gallop_left and gallop_right, between the
\* offsets the galloping found; -1 when a comparison raises
RECURSIVE GallopSearch(_, _, _, _, _, _)
GallopSearch(run, less, key, left, lastofs, ofs) ==
    IF lastofs >= ofs THEN ofs
    ELSE IF GallopTest(run, less, key, left, lastofs + ((ofs - lastofs) \div 2)) = "E"
    THEN 0 - 1
    ELSE IF (GallopTest(run, less, key, left, lastofs + ((ofs - lastofs) \div 2)) = "T") = left
    THEN GallopSearch(run, less, key, left, lastofs + ((ofs - lastofs) \div 2) + 1, ofs)
    ELSE GallopSearch(run, less, key, left, lastofs, lastofs + ((ofs - lastofs) \div 2))

\* the search after galloping to the right of the hint and to the left of it
GallopFrom(run, less, key, left, hint, right, found) ==
    IF found.exc THEN 0 - 1
    ELSE IF right
    THEN GallopSearch(run, less, key, left, found.lastofs + hint + 1, found.ofs + hint)
    ELSE GallopSearch(run, less, key, left, hint - found.ofs + 1, hint - found.lastofs)

\* gallop_left (left) and gallop_right of list.sort: the number of items of
\* the sorted run that belong before the key, the items equal to the key
\* counted by gallop_right only; the search begins at the item hint (counted
\* from 0); -1 when a comparison raises
Gallop(run, less, key, left, hint) ==
    IF GallopTest(run, less, key, left, hint) = "E" THEN 0 - 1
    ELSE CHOOSE k \in
             { GallopFrom(run, less, key, left, hint, right,
                          GallopOffsets(run, less, key, left, hint,
                                        IF right THEN 1 ELSE 0 - 1,
                                        GallopTest(run, less, key, left, hint), 0, 1,
                                        IF right THEN Len(run) - hint ELSE hint + 1)) :
               right \in { (GallopTest(run, less, key, left, hint) = "T") = left } } : TRUE

\* powerloop of list.sort: the power of the boundary between the run of n1
\* items at s1 (counted from 0) and the run of n2 items after it, in a list
\* of n items
RECURSIVE PowerLoop(_, _, _, _)
PowerLoop(a, b, n, result) ==
    IF a >= n THEN PowerLoop(2 * (a - n), 2 * (b - n), n, result + 1)
    ELSE IF b >= n THEN result + 1
    ELSE PowerLoop(2 * a, 2 * b, n, result + 1)

\* the state of list.sort when it begins: no run is pending, min_gallop is 7
SortBegins(order) ==
    [order |-> order, pending |-> << >>, min_gallop |-> 7, lo |-> 1, n |-> 0,
     start |-> 0, power |-> 0, at |-> "count_run", back |-> "", a |-> << >>,
     b |-> << >>, out |-> << >>, from |-> 1, acount |-> 0, bcount |-> 0]

\* a comparison raised
SortRaises(ms) == [ms EXCEPT !.at = "raise"]

\* "Identify next run": count_run, the reversal of a descending run, and the
\* length min(minrun, nremaining) that binarysort extends a short run to
NextRun(ms, run, minrun) ==
    IF run.exc THEN SortRaises(ms)
    ELSE [ms EXCEPT
            !.order = IF run.descending THEN RunReversed(ms.order, ms.lo, run.n) ELSE @,
            !.n = IF run.n >= minrun THEN run.n
                  ELSE IF Len(ms.order) - ms.lo + 1 <= minrun
                  THEN Len(ms.order) - ms.lo + 1 ELSE minrun,
            !.start = ms.lo + run.n,
            !.at = IF run.n >= minrun THEN "found_new_run" ELSE "binarysort"]

\* binarysort: the item at start is put into the sorted run before it, at
\* the place the binary search gave
BinarySort(ms, at) ==
    IF at < 0 THEN SortRaises(ms)
    ELSE [ms EXCEPT !.order = Inserted(ms.order, at, ms.start - 1), !.start = @ + 1]

\* "Push new run on stack" and "Advance to find next run"
PushRun(ms) ==
    [ms EXCEPT !.pending = Append(@, [base |-> ms.lo, len |-> ms.n, power |-> 0]),
               !.lo = @ + ms.n,
               !.at = IF ms.lo + ms.n > Len(ms.order) THEN "merge_force_collapse"
                      ELSE "count_run"]

\* found_new_run: the power of the boundary before the new run
FoundNewRun(ms) ==
    IF ms.pending = << >> THEN PushRun(ms)
    ELSE [ms EXCEPT !.power = PowerLoop(2 * (ms.pending[Len(ms.pending)].base - 1)
                                            + ms.pending[Len(ms.pending)].len,
                                        2 * (ms.pending[Len(ms.pending)].base - 1)
                                            + 2 * ms.pending[Len(ms.pending)].len + ms.n,
                                        Len(ms.order), 0),
                    !.at = "powersort"]

\* merge_at begins: the runs i and i + 1 become one pending run; a and b are
\* their items
MergeAt(ms, i, back) ==
    [ms EXCEPT
       !.pending = SubSeq(@, 1, i - 1)
                      \o << [@[i] EXCEPT !.len = @ + ms.pending[i + 1].len] >>
                      \o SubSeq(@, i + 2, Len(@)),
       !.a = SubSeq(ms.order, ms.pending[i].base, ms.pending[i].base + ms.pending[i].len - 1),
       !.b = SubSeq(ms.order, ms.pending[i + 1].base,
                    ms.pending[i + 1].base + ms.pending[i + 1].len - 1),
       !.out = << >>,
       !.from = ms.pending[i].base,
       !.at = "merge_at",
       !.back = back]

\* the loop of found_new_run: the last two pending runs are merged while the
\* power of the boundary between them is greater than that of the new one
PowerSort(ms) ==
    IF Len(ms.pending) > 1 /\ ms.pending[Len(ms.pending) - 1].power > ms.power
    THEN MergeAt(ms, Len(ms.pending) - 1, "powersort")
    ELSE PushRun([ms EXCEPT !.pending[Len(ms.pending)].power = ms.power])

\* merge_force_collapse: the pending runs are merged until one remains, the
\* last two, or the two before the last when the third last is the shorter
MergeForceCollapse(ms) ==
    IF Len(ms.pending) < 2 THEN [ms EXCEPT !.at = "done"]
    ELSE IF Len(ms.pending) > 2
            /\ ms.pending[Len(ms.pending) - 2].len < ms.pending[Len(ms.pending)].len
    THEN MergeAt(ms, Len(ms.pending) - 2, "merge_force_collapse")
    ELSE MergeAt(ms, Len(ms.pending) - 1, "merge_force_collapse")

\* a merge ends: the merged items take the places from from on
Merged(ms, items) ==
    [ms EXCEPT !.order = SubSeq(@, 1, ms.from - 1) \o items
                            \o SubSeq(@, ms.from + Len(items), Len(@)),
               !.a = << >>, !.b = << >>, !.out = << >>,
               !.at = ms.back]

\* merge_lo ends: the items merged, then what is left of b, in its place, and
\* what is left of a ("CopyB": the last item of a after the rest of b)
MergedLow(ms) == Merged(ms, ms.out \o ms.b \o ms.a)

\* merge_hi ends: what is left of a, in its place, and of b ("CopyA": the
\* first item of b before the rest of a), then the items merged
MergedHigh(ms) == Merged(ms, ms.b \o ms.a \o ms.out)

\* merge_lo moves the first k items of a or of b to the merged items
LowTakes(ms, of_a, k) ==
    IF of_a
    THEN [ms EXCEPT !.out = @ \o SubSeq(ms.a, 1, k), !.a = SubSeq(@, k + 1, Len(@))]
    ELSE [ms EXCEPT !.out = @ \o SubSeq(ms.b, 1, k), !.b = SubSeq(@, k + 1, Len(@))]

\* merge_hi moves the last k items of a or of b to the merged items
HighTakes(ms, of_a, k) ==
    IF of_a
    THEN [ms EXCEPT !.out = SubSeq(ms.a, Len(ms.a) - k + 1, Len(ms.a)) \o @,
                    !.a = SubSeq(@, 1, Len(@) - k)]
    ELSE [ms EXCEPT !.out = SubSeq(ms.b, Len(ms.b) - k + 1, Len(ms.b)) \o @,
                    !.b = SubSeq(@, 1, Len(@) - k)]

\* merge_lo and merge_hi begin, after their first item was moved
MergeBegins(ms, low) ==
    IF low
    THEN IF ms.b = << >> \/ Len(ms.a) = 1 THEN MergedLow(ms)
         ELSE [ms EXCEPT !.at = "merge_lo", !.acount = 0, !.bcount = 0]
    ELSE IF ms.a = << >> \/ Len(ms.b) = 1 THEN MergedHigh(ms)
         ELSE [ms EXCEPT !.at = "merge_hi", !.acount = 0, !.bcount = 0]

\* merge_at goes on, "Where does a end in b?": the items of b after that
\* place are in place already; the shorter run is the one copied
MergeTrimmed(ms, nb) ==
    IF nb < 0 THEN SortRaises(ms)
    ELSE IF nb = 0 THEN Merged(ms, ms.a)
    ELSE IF Len(ms.a) <= nb
    THEN MergeBegins(LowTakes([ms EXCEPT !.b = SubSeq(@, 1, nb)], FALSE, 1), TRUE)
    ELSE MergeBegins(HighTakes([ms EXCEPT !.b = SubSeq(@, 1, nb)], TRUE, 1), FALSE)

\* merge_at goes on, "Where does b start in a?": the first k items of a are
\* in place already
MergeTrims(ms, less, k) ==
    IF k < 0 THEN SortRaises(ms)
    ELSE IF k = Len(ms.a) THEN [ms EXCEPT !.a = << >>, !.b = << >>, !.at = ms.back]
    ELSE CHOOSE next \in
             { MergeTrimmed(trimmed, Gallop(trimmed.b, less, trimmed.a[Len(trimmed.a)],
                                            TRUE, Len(trimmed.b) - 1)) :
               trimmed \in { [ms EXCEPT !.a = SubSeq(@, k + 1, Len(@)),
                                        !.from = @ + k] } } : TRUE

\* the merge leaves the galloping mode when neither run gave MIN_GALLOP (7)
\* items at once, and min_gallop grows by one
GallopEnds(ms, low) ==
    IF ms.acount >= 7 \/ ms.bcount >= 7
    THEN [ms EXCEPT !.at = IF low THEN "gallop_lo" ELSE "gallop_hi"]
    ELSE [ms EXCEPT !.at = IF low THEN "merge_lo" ELSE "merge_hi",
                    !.min_gallop = @ + 1, !.acount = 0, !.bcount = 0]

\* the merge enters the galloping mode when one run has won min_gallop times
\* in a row
GallopBegins(ms, low) ==
    IF ms.acount >= ms.min_gallop \/ ms.bcount >= ms.min_gallop
    THEN [ms EXCEPT !.at = IF low THEN "gallop_lo" ELSE "gallop_hi",
                    !.min_gallop = @ + 1]
    ELSE ms

\* merge_lo, one item at a time: the first of b when it is less than the
\* first of a, else the first of a
MergeLow(ms, less) ==
    IF less[ms.b[1]][ms.a[1]] = "E" THEN SortRaises(ms)
    ELSE IF less[ms.b[1]][ms.a[1]] = "T"
    THEN IF Len(ms.b) = 1 THEN MergedLow(LowTakes(ms, FALSE, 1))
         ELSE GallopBegins([LowTakes(ms, FALSE, 1) EXCEPT !.bcount = @ + 1, !.acount = 0],
                           TRUE)
    ELSE IF Len(ms.a) = 2 THEN MergedLow(LowTakes(ms, TRUE, 1))
         ELSE GallopBegins([LowTakes(ms, TRUE, 1) EXCEPT !.acount = @ + 1, !.bcount = 0],
                           TRUE)

\* merge_hi, one item at a time: the last of a when the last of b is less
\* than it, else the last of b
MergeHigh(ms, less) ==
    IF less[ms.b[Len(ms.b)]][ms.a[Len(ms.a)]] = "E" THEN SortRaises(ms)
    ELSE IF less[ms.b[Len(ms.b)]][ms.a[Len(ms.a)]] = "T"
    THEN IF Len(ms.a) = 1 THEN MergedHigh(HighTakes(ms, TRUE, 1))
         ELSE GallopBegins([HighTakes(ms, TRUE, 1) EXCEPT !.acount = @ + 1, !.bcount = 0],
                           FALSE)
    ELSE IF Len(ms.b) = 2 THEN MergedHigh(HighTakes(ms, FALSE, 1))
         ELSE GallopBegins([HighTakes(ms, FALSE, 1) EXCEPT !.bcount = @ + 1, !.acount = 0],
                           FALSE)

\* the second half of a turn of the galloping loop of merge_lo: the k items
\* of b that belong before the first of a are moved, then that item of a
GallopLowB(ms, k) ==
    IF k < 0 THEN SortRaises(ms)
    ELSE IF k > 0 /\ k = Len(ms.b) THEN MergedLow(LowTakes(ms, FALSE, k))
    ELSE IF Len(ms.a) = 2 THEN MergedLow(LowTakes(LowTakes(ms, FALSE, k), TRUE, 1))
    ELSE GallopEnds([LowTakes(LowTakes(ms, FALSE, k), TRUE, 1) EXCEPT !.bcount = k], TRUE)

\* a turn of the galloping loop of merge_lo: the k items of a that belong
\* before the first of b are moved, then that item of b
GallopLow(ms, less, k) ==
    IF k < 0 THEN SortRaises(ms)
    ELSE IF k > 0 /\ Len(ms.a) - k <= 1 THEN MergedLow(LowTakes(ms, TRUE, k))
    ELSE IF Len(ms.b) = 1 THEN MergedLow(LowTakes(LowTakes(ms, TRUE, k), FALSE, 1))
    ELSE CHOOSE next \in
             { GallopLowB(taken, Gallop(taken.b, less, taken.a[1], TRUE, 0)) :
               taken \in { [LowTakes(LowTakes(ms, TRUE, k), FALSE, 1)
                               EXCEPT !.acount = k] } } : TRUE

\* the second half of a turn of the galloping loop of merge_hi: the k items
\* of b that belong after the last of a are moved, then that item of a
GallopHighB(ms, k) ==
    IF k < 0 THEN SortRaises(ms)
    ELSE IF k > 0 /\ Len(ms.b) - k <= 1 THEN MergedHigh(HighTakes(ms, FALSE, k))
    ELSE IF Len(ms.a) = 1 THEN MergedHigh(HighTakes(HighTakes(ms, FALSE, k), TRUE, 1))
    ELSE GallopEnds([HighTakes(HighTakes(ms, FALSE, k), TRUE, 1) EXCEPT !.bcount = k],
                    FALSE)

\* the second half of a turn of the galloping loop of merge_hi, with what
\* gallop_left gave
GallopHighEnds(ms, gallop) ==
    GallopHighB(ms, IF gallop < 0 THEN gallop ELSE Len(ms.b) - gallop)

\* a turn of the galloping loop of merge_hi: the k items of a that belong
\* after the last of b are moved, then that item of b
GallopHigh(ms, less, k) ==
    IF k < 0 THEN SortRaises(ms)
    ELSE IF k > 0 /\ k = Len(ms.a) THEN MergedHigh(HighTakes(ms, TRUE, k))
    ELSE IF Len(ms.b) = 2 THEN MergedHigh(HighTakes(HighTakes(ms, TRUE, k), FALSE, 1))
    ELSE CHOOSE next \in
             { GallopHighEnds(taken, Gallop(taken.b, less, taken.a[Len(taken.a)], TRUE,
                                            Len(taken.b) - 1)) :
               taken \in { [HighTakes(HighTakes(ms, TRUE, k), FALSE, 1)
                               EXCEPT !.acount = k] } } : TRUE

\* min_gallop at the beginning of a turn of the galloping loop
Galloping(ms) == [ms EXCEPT !.min_gallop = IF @ > 1 THEN @ - 1 ELSE @]

\* the first half of a turn of the galloping loop of merge_hi, with what
\* gallop_right gave
GallopHighBegins(ms, less, gallop) ==
    GallopHigh(ms, less, IF gallop < 0 THEN gallop ELSE Len(ms.a) - gallop)

\* one step of list.sort
SortStep(ms, less) ==
    CASE ms.at = "count_run" ->
             NextRun(ms, CountRun(ms.order, less, ms.lo), MinRun(Len(ms.order), 0))
      [] ms.at = "binarysort" ->
             IF ms.start >= ms.lo + ms.n THEN [ms EXCEPT !.at = "found_new_run"]
             ELSE BinarySort(ms, Bisect(ms.order, less, ms.order[ms.start],
                                        ms.lo - 1, ms.start - 1))
      [] ms.at = "found_new_run" -> FoundNewRun(ms)
      [] ms.at = "powersort" -> PowerSort(ms)
      [] ms.at = "merge_force_collapse" -> MergeForceCollapse(ms)
      [] ms.at = "merge_at" -> MergeTrims(ms, less, Gallop(ms.a, less, ms.b[1], FALSE, 0))
      [] ms.at = "merge_lo" -> MergeLow(ms, less)
      [] ms.at = "merge_hi" -> MergeHigh(ms, less)
      [] ms.at = "gallop_lo" ->
             GallopLow(Galloping(ms), less, Gallop(ms.a, less, ms.b[1], FALSE, 0))
      [] ms.at = "gallop_hi" ->
             GallopHighBegins(Galloping(ms), less,
                         Gallop(ms.a, less, ms.b[Len(ms.b)], FALSE, Len(ms.a) - 1))
      [] OTHER -> ms

\* the sort after at most steps steps more
RECURSIVE SortSteps(_, _, _)
SortSteps(ms, less, steps) ==
    IF ms.at \in {"done", "raise"} THEN ms
    ELSE IF steps = 1 THEN SortStep(ms, less)
    ELSE CHOOSE end \in
             { SortSteps(half, less, steps - steps \div 2) :
               half \in { SortSteps(ms, less, steps \div 2) } } : TRUE

\* what the sort ended with
SortEnds(ms) ==
    IF ms.at = "raise" THEN [exc |-> TRUE, v |-> << >>] ELSE [exc |-> FALSE, v |-> ms.order]

\* list.sort of two or more items: the runs of the list are found one after
\* the other, a short run is extended to minrun items by binary insertion (a
\* list of fewer than 64 items is one such run), and pending runs are merged,
\* by the powers of their boundaries while runs are found and all of them at the
\* end; v is the order of the items after the sort.  Its steps are fewer than
\* the square of the number of items, plus 64
SortOrder(order, less) ==
    SortEnds(SortSteps(SortBegins(order), less, Len(order) * Len(order) + 64))

\* the items in the order the sort gave, none when it raised
Ordered(items, outcome) ==
    IF outcome.exc THEN outcome
    ELSE [exc |-> FALSE, v |-> [k \in 1..Len(items) |-> items[outcome.v[k]]]]

\* items_array.sort(key=lambda x: x["displayName"]).  Fewer than two items
\* are not compared; exc tells that a comparison raised TypeError
SortByDisplayName(items) ==
    IF Len(items) < 2 THEN [exc |-> FALSE, v |-> items]
    ELSE CHOOSE result \in
             { Ordered(items, outcome) :
               outcome \in { SortOrder([k \in 1..Len(items) |-> k], Comparisons(items)) } } : TRUE

\* the loop over the categories: the processed items in category order
RECURSIVE ProcessCategories(_)
ProcessCategories(c) ==
    IF c = << >> THEN << >>
    ELSE [j \in 1..Len(Head(c).val.items) |->
              process_single_item(Head(c).val.items[j], Head(c).k)]
             \o ProcessCategories(Tail(c))

\* the outcome of the sort as the outcome of process_items
Sorted(outcome) ==
    IF outcome.exc THEN [out |-> << >>, raised |-> TRUE]
    ELSE [out |-> outcome.v, raised |-> FALSE]

\* process_items(root_dir, version_id, filled_items, data): out is the list
\* returned, raised tells whether the except clause caught an exception.
\* len(None) raises; iterating a single mapping yields its key strings and
\* iterating a str its characters, which have no get; the sort raises
\* TypeError when it compares two displayNames that have no order.
ProcessItemsRun(filled) ==
    IF \/ \E i \in 1..Len(filled) : ~filled[i].val.list /\ NoListRaises(filled[i].val)
       \/ \E i \in 1..Len(filled) : \E j \in 1..Len(filled[i].val.items) :
             ItemRaises(filled[i].val.items[j], filled[i].k)
    THEN [out |-> << >>, raised |-> TRUE]
    ELSE CHOOSE result \in { Sorted(SortByDisplayName(items)) :
                                items \in { ProcessCategories(filled) } } : TRUE

process_items(filled) == ProcessItemsRun(filled).out

-----------------------------------------------------------------------------
(* main.py from init_data_json on.  combined_items and text_ui_items are     *)
(* what convert_xml makes of the XML files of the game, which main holds     *)
(* from s03 on; parsed_items, filled_items and items_array hold the outcome *)
(* of their stage, None while not assigned; exit_code is -1 while main has  *)
(* not returned; ran lists the stages of the item pipeline called, raised   *)
(* the stages that caught an exception of a step.                           *)

MainRecord(id, name, more) == (RawK("Id") :> id) @@ (RawK("Name") :> name) @@ more

R_cap == MainRecord(Str(<<"a","1">>), Str(<<"c","a","p">>), RawK("Clothing") :> Str(<<"C","a","p">>))

\* an Armor element whose Clothing is an empty child element
R_bare == MainRecord(Str(<<"a","2">>), Str(<<"r","o","b","e">>), K("Clothing") :> NoneValue)

R_hood == MainRecord(Str(<<"h","1">>), Str(<<"h","o","o","d">>),
                     (RawK("Clothing") :> Str(<<"H","o","o","d">>))
                         @@ (RawK("IconId") :> Str(<<"h","o","o","d","_","i","c","o","n">>)))

R_sword == MainRecord(Str(<<"w","1">>), S_sword_base,
                      (RawK("Class") :> Str(<<"4">>)) @@ (RawK("UIName") :> S_ui_a))

R_torch == MainRecord(Str(<<"w","2">>), Str(<<"t","o","r","c","h">>), RawK("Class") :> Str(<<"1","1">>))

\* a weapon whose IconId is an empty child element
R_mace == MainRecord(Str(<<"w","3">>), Str(<<"m","a","c","e">>), K("IconId") :> NoneValue)

R_die == MainRecord(Str(<<"d","1">>), S_die, RawK("IconId") :> S_die)

R_food == MainRecord(Str(<<"f","1">>), Str(<<"p","i","e">>), EmptyMap)

R_alias == (RawK("Name") :> S_sword_gold) @@ (RawK("SourceItemId") :> Str(<<"w","1">>))

\* an alias of the Food record
R_alias_food == (RawK("Name") :> Str(<<"p","i","e","_","g","o","l","d">>))
                    @@ (RawK("SourceItemId") :> Str(<<"f","1">>))

\* an alias without a SourceItemId
R_alias_lost == (RawK("Id") :> Str(<<"x","1">>)) @@ (RawK("Name") :> Str(<<"l","o","s","t">>))

MainInputs ==
    { RawCollection(hood \o armor \o melee \o die \o food \o alias) :
        hood \in OptCat("Hood", {List(<< R_hood >>), Dict(R_hood)}),
        armor \in OptCat("Armor", {List(<< R_cap >>), List(<< R_cap, R_bare >>),
                                   List(<< R_bare >>), Dict(R_cap)}),
        melee \in OptCat("MeleeWeapon", {List(<< R_sword >>), List(<< R_torch >>),
                                         List(<< R_mace >>), Dict(R_sword)}),
        die \in OptCat("Die", {List(<< R_die >>), Dict(R_die)}),
        food \in OptCat("Food", {List(<< R_food >>)}),
        alias \in OptCat("ItemAlias", {List(<< R_alias >>),
                                       List(<< R_alias_food, R_alias_lost >>)}) }

MainUiTexts ==
    { EmptyMap, S_ui_a :> << Str(<<"d","e","v">>), Str(<<"L","O","N","G"," ","s","w","o","r","d">>) >> }

Entry(k, val) == [k |-> k, val |-> val]

NoTable == PyList(<< >>)

\* a template with the keys of the one that template_build.py writes
T_built ==
    << Entry("version", PyDict(<< Entry("Id", PyInt(0)), Entry("Name", PyStr(<< >>)) >>)),
       Entry("categories", NoTable), Entry("ui_slots", NoTable),
       Entry("weapon_types", NoTable), Entry("armor_types", NoTable),
       Entry("dice_badges", PyDict(<< Entry("types", NoTable), Entry("subtypes", NoTable) >>)),
       Entry("items", PyDict(<< Entry("melee", NoTable), Entry("die", NoTable) >>)) >>

\* a template with the keys init_data_json assigns to
T_data ==
    << Entry("version", PyDict(<< Entry("Id", PyInt(0)), Entry("Name", PyStr(<< >>)) >>)),
       Entry("diceBadges", PyDict(<< Entry("types", NoTable), Entry("subtypes", NoTable) >>)) >>

\* a filters.json that names two armor types and a name that is no armor type
F_two ==
    << Entry(Str(<<"h","e","a","d","C","a","p">>),
             Filters(<< Str(<<"H","a","t">>), Str(<<"C","a","p">>) >>)),
       Entry(Str(<<"h","e","a","d","H","o","o","d">>), Filters(<< >>)),
       Entry(Str(<<"h","e","l","m","e","t">>), Filters(<< Str(<<"H","o","o","d">>) >>)) >>

\* a filters.json with a str for an armor type
F_str == << Entry(Str(<<"b","e","l","t">>), PyStr(Str(<<"B","e","l","t">>))) >>

\* a filters.json with null for an armor type
F_null == << Entry(Str(<<"b","e","l","t">>), PyNone) >>

\* a version.json with a latest version
V_latest ==
    << Entry("latest",
             PyDict(<< Entry("Id", PyInt(7)), Entry("Name", PyStr(Str(<<"1",".","2">>))),
                       Entry("Branch", PyDict(<< Entry("Name", PyStr(Str(<<"m","a","i","n">>))) >>)),
                       Entry("Platform", PyDict(<< Entry("Id", PyInt(1)) >>)) >>)) >>

\* a version.json whose Branch is the given value
V_branch(branch) ==
    << Entry("latest", PyDict(<< Entry("Id", PyInt(7)), Entry("Branch", branch) >>)) >>

\* the files init_data_json finds: no template, an empty one, one with the
\* keys that template_build.py writes, ones whose diceBadges is null or a
\* list, a filters.json with null or a str for an armor type, a version.json
\* whose Branch is null or a list, a data.json that cannot be written, and
\* two sets of files it succeeds on
InitDataFiles ==
    << [template |-> None, filters |-> None, version_data |-> None, written |-> TRUE],
       [template |-> Ok(<< >>), filters |-> Ok(F_two), version_data |-> Ok(V_latest),
        written |-> TRUE],
       [template |-> Ok(T_built), filters |-> Ok(F_two), version_data |-> Ok(V_latest),
        written |-> TRUE],
       [template |-> Ok(<< Entry("diceBadges", PyNone) >>), filters |-> None,
        version_data |-> None, written |-> TRUE],
       [template |-> Ok(<< Entry("diceBadges", NoTable) >>), filters |-> None,
        version_data |-> None, written |-> TRUE],
       [template |-> Ok(T_data), filters |-> Ok(F_null), version_data |-> None,
        written |-> TRUE],
       [template |-> Ok(T_data), filters |-> Ok(F_str), version_data |-> None,
        written |-> TRUE],
       [template |-> Ok(T_data), filters |-> None,
        version_data |-> Ok(V_branch(PyNone)), written |-> TRUE],
       [template |-> Ok(T_data), filters |-> None,
        version_data |-> Ok(V_branch(NoTable)), written |-> TRUE],
       [template |-> Ok(T_data), filters |-> None, version_data |-> None,
        written |-> FALSE],
       [template |-> Ok(T_data), filters |-> None, version_data |-> None,
        written |-> TRUE],
       [template |-> Ok(T_data), filters |-> Ok(F_two), version_data |-> Ok(V_latest),
        written |-> TRUE] >>

InitMain ==
    /\ pc = "s02"
    /\ arg = << >> /\ ret = << >>
    /\ removed_counts = NoCounts
    /\ combined_items \in MainInputs
    /\ text_ui_items \in MainUiTexts
    /\ data = << >>
    /\ parsed_items = None /\ filled_items = None /\ items_array = None
    /\ exit_code = -1
    /\ ran = << >>
    /\ raised = {}

\* what main does with the result r of init_data_json: "if not data: return 1"
InitDataJsonReturns(r) ==
    IF r.none
    THEN data' = << >> /\ pc' = "exit" /\ exit_code' = 1
    ELSE data' = r.v /\ pc' = "s03" /\ exit_code' = exit_code

\* s02: init_data_json; data is << >> while it holds no tables
MainInitDataJson ==
    /\ pc = "s02"
    /\ \E i \in 1..Len(InitDataFiles) :
          InitDataJsonReturns(init_data_json(InitDataFiles[i].template,
                                             InitDataFiles[i].filters,
                                             InitDataFiles[i].version_data,
                                             InitDataFiles[i].written))
    /\ UNCHANGED << arg, ret, removed_counts, combined_items, text_ui_items,
                    parsed_items, filled_items, items_array, ran, raised >>

\* what get_xml returns: {} when a file is missing or cannot be read, else
\* the trees of combined_items and text_ui_items; main looks for both
XmlTrees ==
    { {}, {"combined_items"}, {"text_ui_items"}, {"combined_items", "text_ui_items"} }

\* s03: get_xml, "if not xml_trees or ... not in xml_trees: return 1";
\* convert_xml, which returns the two dictionaries, or None, which main cannot
\* unpack (TypeError: main raises); and the writing of combined_items.xml,
\* which raises (return 1) or not.  write_json returns False where it fails
\* and raises nothing
MainGetXml ==
    /\ pc = "s03"
    /\ \E xml_trees \in XmlTrees, converted \in BOOLEAN, written \in BOOLEAN :
         IF xml_trees # {"combined_items", "text_ui_items"}
         THEN pc' = "exit" /\ exit_code' = 1
         ELSE IF ~converted
         THEN pc' = "raise" /\ exit_code' = exit_code
         ELSE IF ~written
         THEN pc' = "exit" /\ exit_code' = 1
         ELSE pc' = "s04" /\ exit_code' = exit_code
    /\ UNCHANGED << arg, ret, removed_counts, combined_items, text_ui_items, data,
                    parsed_items, filled_items, items_array, ran, raised >>

\* s04: parse_items, "if not parsed_items: return 1"
MainParseItems ==
    /\ pc = "s04"
    /\ \E r \in {ParseItemsRun(combined_items, text_ui_items)} :
         /\ parsed_items' = Ok(r.out)
         /\ removed_counts' = r.counts
         /\ raised' = IF r.raised THEN raised \cup {"parse_items"} ELSE raised
         /\ IF r.out = << >>
            THEN pc' = "exit" /\ exit_code' = 1
            ELSE pc' = "s05" /\ exit_code' = exit_code
    /\ combined_items' = CallerSees(combined_items, deepcopy(combined_items),
                                    PyDict(KeptCategories(combined_items.map)))
    /\ ran' = Append(ran, "parse_items")
    /\ UNCHANGED << arg, ret, text_ui_items, data, filled_items, items_array >>

\* s05: fill_item_properties, "if not filled_items: return 1"
MainFillItemProperties ==
    /\ pc = "s05"
    /\ \E r \in {FillItemPropertiesRun(parsed_items.v, data)} :
         /\ filled_items' = r.out
         /\ raised' = IF r.raised THEN raised \cup {"fill_item_properties"} ELSE raised
         /\ IF r.out.none \/ r.out.v = << >>
            THEN pc' = "exit" /\ exit_code' = 1
            ELSE pc' = "s06" /\ exit_code' = exit_code
    /\ parsed_items' = Ok(CallerSees(parsed_items.v, deepcopy(parsed_items.v),
                                     FilledInPlace(parsed_items.v, data)))
    /\ ran' = Append(ran, "fill_item_properties")
    /\ UNCHANGED << arg, ret, removed_counts, combined_items, text_ui_items, data,
                    items_array >>

\* "if not items_array: return 1", data["items"] = items_array: what main does
\* with the result r of process_items
ProcessItemsReturns(r) ==
    /\ items_array' = Ok(r.out)
    /\ raised' = IF r.raised THEN raised \cup {"process_items"} ELSE raised
    /\ IF r.out = << >>
       THEN pc' = "exit" /\ exit_code' = 1 /\ data' = data
       ELSE pc' = "s07" /\ exit_code' = exit_code
              /\ data' = ("items" :> r.out) @@ data

\* s06: process_items
MainProcessItems ==
    /\ pc = "s06"
    /\ \E r \in {ProcessItemsRun(filled_items.v)} : ProcessItemsReturns(r)
    /\ ran' = Append(ran, "process_items")
    /\ UNCHANGED << arg, ret, removed_counts, combined_items, text_ui_items,
                    parsed_items, filled_items >>

\* the icon ids of the items, "iconId" in item and item["iconId"]: those that
\* are not empty
IconIds(items) ==
    { Get(items[i], "iconId") :
        i \in { j \in 1..Len(items) :
                  Has(items[j], "iconId") /\ Truthy(PyValue(Get(items[j], "iconId"))) } }

\* an icon id that is the iconId of no item
S_zzz == Str(<<"z","z","z">>)

\* process_icons names the icon of a file of the pak by the name of the file
\* without "_icon": the ids that a file of the pak can have
InPak(icon_ids) ==
    { id \in icon_ids : IsStr(id) /\ ~Contains(id, Str(<<"_","i","c","o","n">>)) }

\* the files extract_icons finds for the icon ids of the items: whether
\* IPL_GameData.pak exists; mapping, the icon ids that icons_mapping.json
\* names with a file that exists (none without icons_mapping.json); in_pak,
\* the icon ids whose file of the pak process_icons converts to webp; left,
\* the icon ids of the files that an earlier run left in the temp directory
\* and process_icons converts too; raises, whether process_icons raises (the
\* pak is no zip file, a tool is missing)
IconFiles(icon_ids) ==
    { [pak |-> pak, mapping |-> mapping, in_pak |-> in_pak, left |-> left,
       raises |-> raises] :
        pak \in BOOLEAN,
        mapping \in SUBSET ({ id \in icon_ids : IsStr(id) } \cup {S_zzz}),
        in_pak \in SUBSET InPak(icon_ids),
        left \in {{}, {S_zzz}},
        raises \in BOOLEAN }

\* process_icons of s07_extract_icons.py: the files of the pak whose icon id
\* is one to extract are extracted, and the .dds files of the temp directory
\* are converted; the result maps their icon ids to the webp files
process_icons(icon_ids_to_extract, files) ==
    [id \in (icon_ids_to_extract \cap files.in_pak) \cup files.left |-> "webp"]

\* the end of extract_icons: existing_icons when no icon id is new, else
\* {**existing_icons, **extracted_icons}, None when process_icons raises
ExtractedIcons(existing_icons, icon_ids_to_extract, files) ==
    IF icon_ids_to_extract = {} THEN Ok(existing_icons)
    ELSE IF files.raises THEN None
    ELSE Ok(process_icons(icon_ids_to_extract, files) @@ existing_icons)

\* extract_icons: None for no items and without the pak; the icon ids to
\* extract are those of the items that icons_mapping.json does not name; an
\* iconId that cannot be hashed raises TypeError, and the function returns
\* None
extract_icons(items, files) ==
    IF items = << >> \/ ~files.pak THEN None
    ELSE IF \E id \in IconIds(items) : Unhashable(id) THEN None
    ELSE ExtractedIcons([id \in files.mapping |-> "mapped"],
                        IconIds(items) \ files.mapping, files)

\* "if not icons: return 1", data["icons"] = icons and "return 0": what main
\* does with the result of extract_icons.  write_json returns False when it
\* cannot write data.json and raises nothing
ExtractIconsReturns(icons) ==
    IF icons.none \/ icons.v = EmptyMap
    THEN exit_code' = 1 /\ data' = data
    ELSE exit_code' = 0 /\ data' = ("icons" :> icons.v) @@ data

\* s07: extract_icons
MainExtractIcons ==
    /\ pc = "s07"
    /\ \E files \in IconFiles(IconIds(items_array.v)) :
         ExtractIconsReturns(extract_icons(items_array.v, files))
    /\ pc' = "exit"
    /\ ran' = Append(ran, "extract_icons")
    /\ UNCHANGED << arg, ret, removed_counts, combined_items, text_ui_items,
                    parsed_items, filled_items, items_array, raised >>

NextMain ==
    \/ MainInitDataJson
    \/ MainGetXml
    \/ MainParseItems
    \/ MainFillItemProperties
    \/ MainProcessItems
    \/ MainExtractIcons

SpecMain == InitMain /\ [][NextMain]_vars

\* stage was called in this run
Ran(stage) == \E i \in 1..Len(ran) : ran[i] = stage

\* C5: whenever a stage catches an exception of its core logic, the stage
\* returns an empty result ({} or []), no later stage is executed and main
\* returns a non-zero exit code.
C5_StageFailureStopsTheRun ==
    /\ "parse_items" \in raised =>
          /\ parsed_items = Ok(<< >>)
          /\ ~Ran("fill_item_properties") /\ ~Ran("process_items")
          /\ pc = "exit" /\ exit_code # 0
    /\ "fill_item_properties" \in raised =>
          /\ filled_items = Ok(<< >>)
          /\ ~Ran("process_items")
          /\ pc = "exit" /\ exit_code # 0
    /\ "process_items" \in raised =>
          /\ items_array = Ok(<< >>)
          /\ pc = "exit" /\ exit_code # 0

\* some category of the collection is a single mapping instead of a list
HasMappingCategory(c) == \E i \in 1..Len(c) : ~c[i].val.list

\* no record has a Clothing that is None
NoNoneClothing(c) ==
    \A i \in 1..Len(c) : \A j \in 1..Len(c[i].val.items) :
        \A k \in DOMAIN c[i].val.items[j] :
            k.name = "Clothing" => c[i].val.items[j][k] # NoneValue

\* C6: when a category of the input is not a sequence, no stage is aborted
\* because of it (none catches an exception), the category is excluded from
\* further processing (it is in no stage's result), and the run goes on as
\* long as the stages return records.
C6_MappingCategorySkipped ==
    (HasMappingCategory(Collection(combined_items))
        /\ NoNoneClothing(Collection(combined_items))) =>
        /\ raised = {}
        /\ ~parsed_items.none => ~HasMappingCategory(parsed_items.v)
        /\ ~filled_items.none => ~HasMappingCategory(filled_items.v)

-----------------------------------------------------------------------------
(* proper_title_case: examples and totality *)

\* a str: every element is the code point of a character
IsText(s) == \A i \in 1..Len(s) : s[i] \in 0..1114111

\* C11: "servant's hood" becomes "Servant's Hood" and "o'brien's axe" becomes
\* "O'brien's Axe"; the empty text and a missing text (None) are returned
\* unchanged; every text yields a text.
C11_TitleCaseExamplesAndTotality ==
    pc = "ret_proper_title_case" =>
        /\ arg.text = S_servants_hood =>
              ret = Str(<<"S","e","r","v","a","n","t","'","s"," ","H","o","o","d">>)
        /\ arg.text = S_obriens_axe =>
              ret = Str(<<"O","'","b","r","i","e","n","'","s"," ","A","x","e">>)
        /\ arg.text \in {<< >>, NoneValue} => ret = arg.text
        /\ arg.text # NoneValue => IsText(ret)

\* "o'brien's axe" was title-cased
C11_Witness ==
    /\ pc = "ret_proper_title_case"
    /\ arg.text = S_obriens_axe
    /\ ret = Str(<<"O","'","b","r","i","e","n","'","s"," ","A","x","e">>)

-----------------------------------------------------------------------------
(* round_up_half on its own: the floats n/4 around zero, the float next     *)
(* below 0.5 (0.49999999999999994, which is Noise "0.004999999999999999"    *)
(* times 100), an infinity and nan.                                         *)

MaxRound == 8

\* the float n/4
Quarter(n) == RoundToDouble(n < 0, BigOf(IF n < 0 THEN 0 - n ELSE n), 0 - 2, FALSE)

\* the greatest float less than 0.5: (2^53 - 1) * 2^-54
BelowHalf == Fin(FALSE, BigSub(BigShl(BigOf(1), 53), BigOf(1)), 0 - 54)

RoundPool ==
    { Quarter(n) : n \in (0 - 4 * MaxRound)..(4 * MaxRound) }
        \cup { BelowHalf, Inf(FALSE), Inf(TRUE), NaN }

InitRound ==
    /\ pc = "call_round_up_half"
    /\ \E x \in RoundPool : arg = [value |-> x]
    /\ ret = << >>
    /\ removed_counts = NoCounts
    /\ NoMainState

CallRoundUpHalf ==
    /\ pc = "call_round_up_half"
    /\ ret' = round_up_half(arg.value)
    /\ pc' = "ret_round_up_half"
    /\ UNCHANGED << arg, removed_counts, mainVars >>

NextRound == CallRoundUpHalf

SpecRound == InitRound /\ [][NextRound]_vars

\* the fractional part of the magnitude of a finite float is exactly 1/2
FractionIsHalf(x) ==
    /\ x.e < 0
    /\ BigBit(x.m, (0 - x.e) - 1) = 1
    /\ ~BigLowBits(x.m, (0 - x.e) - 1)

\* the fractional part of the magnitude of a finite float is more than 1/2
FractionAboveHalf(x) ==
    /\ x.e < 0
    /\ BigBit(x.m, (0 - x.e) - 1) = 1
    /\ BigLowBits(x.m, (0 - x.e) - 1)

\* the integer nearest to a finite float that is not halfway between two
NearestInteger(x) ==
    IntOf(x.neg, IF FractionAboveHalf(x) THEN BigAdd(WholePart(x), BigOf(1))
                 ELSE WholePart(x))

\* C12: round_up_half of a finite value whose fractional part is exactly 0.5
\* is floor(value) + 1, and of any other finite value the nearest integer.
C12_RoundHalfUpLaw ==
    (pc = "ret_round_up_half" /\ arg.value.kind = "fin") =>
        /\ ret.exc = ""
        /\ ret.v = IF FractionIsHalf(arg.value) THEN floor(arg.value).v + 1
                   ELSE NearestInteger(arg.value)


-----------------------------------------------------------------------------
(* safe_int and safe_float on their own: None, texts over a small alphabet, *)
(* the texts the numeric attributes are compared with, and values that are  *)
(* not str.                                                                 *)

MaxNum == 3

NumAlphabet == {Chr("2"), Chr("9"), Chr("."), Chr("-")}

S_na == Str(<<"n","/","a">>)

S_NA == Str(<<"N","/","A">>)

S_inf == Str(<<"i","n","f">>)

S_minus_Infinity == Str(<<"-","I","n","f","i","n","i","t","y">>)

S_nan == Str(<<"n","a","n">>)

S_1e999 == Str(<<"1","e","9","9","9">>)

S_abc == Str(<<"a","b","c">>)

S_2_9 == Str(<<"2",".","9">>)

S_minus_2_9 == Str(<<"-","2",".","9">>)

\* 29 in Arabic-Indic digits
S_arabic_29 == << 1634, 1641 >>

\* a no-break space and an em space around 2
S_nbsp_2 == << 160 >> \o Str(<<"2">>) \o << 8195 >>

\* 2 and the file separator, white space that float() does not strip
S_2_fs == Str(<<"2">>) \o << 28 >>

\* a fullwidth hyphen-minus and 2
S_fullwidth_minus == << 65293 >> \o Str(<<"2">>)

NumTexts ==
    SeqUpTo(NumAlphabet, MaxNum)
        \cup { S_na, S_NA, S_inf, S_minus_Infinity, S_nan, S_1e999, S_abc, S_minus_2_9,
               (Str(<<" ","2">>) \o <<9>>), Str(<<"2","_","9">>), Str(<<"2","e","-","2">>),
               S_arabic_29, S_nbsp_2, S_2_fs, S_fullwidth_minus }

NumValues ==
    { PyStr(s) : s \in NumTexts }
        \cup { PyNone, PyList(<< >>), PyDict(<< >>), PyBool(TRUE), PyInt(0 - 29), PyInt(9),
               PyFloat(Quarter(0 - 11)), PyFloat(Inf(FALSE)), PyFloat(NaN) }

InitSafe ==
    /\ pc \in {"call_safe_int", "call_safe_float"}
    /\ \E value \in NumValues : arg = [value |-> value]
    /\ ret = << >>
    /\ removed_counts = NoCounts
    /\ NoMainState

CallSafeInt ==
    /\ pc = "call_safe_int"
    /\ ret' = safe_int(arg.value)
    /\ pc' = "ret_safe_int"
    /\ UNCHANGED << arg, removed_counts, mainVars >>

CallSafeFloat ==
    /\ pc = "call_safe_float"
    /\ ret' = [exc |-> "", v |-> safe_float(arg.value)]
    /\ pc' = "ret_safe_float"
    /\ UNCHANGED << arg, removed_counts, mainVars >>

NextSafe == CallSafeInt \/ CallSafeFloat

SpecSafe == InitSafe /\ [][NextSafe]_vars

\* None, "" or "n/a" in any letter case
GivesZero(value) ==
    \/ value = PyNone
    \/ value.t = "str" /\ value.s \in {<< >>, S_na, S_NA}

\* C13: safe_int and safe_float return a number for every value and never
\* raise; None, "" and "n/a" give zero; safe_int truncates toward zero
\* ("2.9" gives 2, "-2.9" gives -2).
C13_NumericParsersTotal ==
    /\ pc \in {"ret_safe_int", "ret_safe_float"} => ret.exc = ""
    /\ (pc = "ret_safe_int" /\ GivesZero(arg.value)) => ret.v = 0
    /\ (pc = "ret_safe_float" /\ GivesZero(arg.value)) => ret.v = Zero(FALSE)
    /\ (pc = "ret_safe_int" /\ arg.value = PyStr(S_2_9)) => ret.v = 2
    /\ (pc = "ret_safe_int" /\ arg.value = PyStr(S_minus_2_9)) => ret.v = 0 - 2


-----------------------------------------------------------------------------
(* process_single_item on its own: a Weapons record with at most one of the *)
(* attributes of the rounded stats or MaxQuality, and with or without       *)
(* Attack, AttackModSlash and AttackModStab.                                *)

S_2_25 == Str(<<"2",".","2","5">>)

S_100 == Str(<<"1","0","0">>)

S_0_75 == Str(<<"0",".","7","5">>)

S_minus_0_55 == Str(<<"-","0",".","5","5">>)

S_0_145 == Str(<<"0",".","1","4","5">>)

S_25 == Str(<<"2","5">>)

\* the numeral of a value a little under 0.005
S_under_0_005 ==
    Str(<<"0",".","0","0","4","9","9","9","9","9","9","9","9","9","9","9","9","9","9","9">>)

\* the numeral of the float next below 0.5
S_under_0_5 == Str(<<"0",".","4","9","9","9","9","9","9","9","9","9","9","9","9","9","9","9","4">>)

StatTexts ==
    { S_2_25, S_100, S_0_75, S_minus_0_55, S_0_145, S_25, S_under_0_005, S_na, S_abc,
      S_inf, << >> }

ROUNDED_ATTRIBUTES == { "Weight", "Price", "Conspicuousness", "Noise", "Visibility" }

\* nothing, or one attribute with one of the texts
OneAttribute ==
    { EmptyMap } \cup { K(n) :> t : n \in ROUNDED_ATTRIBUTES \cup {"MaxQuality"}, t \in StatTexts }

\* nothing, or the attribute with one of the texts
Optional(n, texts) == { EmptyMap } \cup { K(n) :> t : t \in texts }

StatRecords ==
    { one @@ attack @@ slash @@ stab :
        one \in OneAttribute,
        attack \in Optional("Attack", { S_100, Str(<<"1">>), S_inf, << >> }),
        slash \in Optional("AttackModSlash", { S_0_75, S_0_145, S_under_0_5 }),
        stab \in Optional("AttackModStab", { Str(<<"0",".","5">>) }) }

\* the record of the scenario
R_scenario == (K("Weight") :> S_2_25) @@ (K("Attack") :> S_100) @@ (K("AttackModSlash") :> S_0_75)

InitStats ==
    /\ pc = "call_process_single_item"
    /\ \E item \in StatRecords : arg = [item |-> item, category |-> "Weapons"]
    /\ ret = << >>
    /\ removed_counts = NoCounts
    /\ NoMainState

CallProcessSingleItem ==
    /\ pc = "call_process_single_item"
    /\ ret' = IF ItemRaises(arg.item, arg.category) THEN Raised
              ELSE Ok(process_single_item(arg.item, arg.category))
    /\ pc' = "ret_process_single_item"
    /\ UNCHANGED << arg, removed_counts, mainVars >>

NextStats == CallProcessSingleItem

SpecStats == InitStats /\ [][NextStats]_vars

\* round half up of a finite float: floor + 1 of a value whose fractional part
\* is exactly 1/2, the nearest integer of any other value
RoundHalfUp(x) ==
    IF FractionIsHalf(x) THEN floor(x).v + 1 ELSE NearestInteger(x)

\* the stat of the record processed
Stat(n) == Get(ret.v, "stats")[K(n)]

\* the call has returned for a record whose rounded attribute is a finite number
RoundedStatCase ==
    /\ pc = "ret_process_single_item"
    /\ \E n \in ROUNDED_ATTRIBUTES :
          Has(arg.item, n) /\ safe_float(Attr(arg.item, n)).kind = "fin"

\* C14: for a record that has the source attribute, weight is
\* roundHalfUp(Weight * 10) / 10, price roundHalfUp(Price * 0.1),
\* conspicuousness roundHalfUp(50 + Conspicuousness * 50), noise
\* roundHalfUp(Noise * 100), visibility roundHalfUp(50 + Visibility * 50); the
\* record {Weight "2.25", Attack "100", AttackModSlash "0.75"} yields the stats
\* {weight 2.3, attack 100, attackModSlash 0.75, attackSlash 75}.
C14_StatDerivations ==
    RoundedStatCase =>
        IF ret.exc THEN FALSE
        ELSE /\ Has(arg.item, "Weight") =>
                  Stat("weight") = DividedBy10(RoundHalfUp(WeightTimes10(arg.item)))
             /\ Has(arg.item, "Price") =>
                  Stat("price") = RoundHalfUp(PriceTimesTenth(arg.item))
             /\ Has(arg.item, "Conspicuousness") =>
                  Stat("conspicuousness")
                      = RoundHalfUp(FiftyPlus50Times(arg.item, "Conspicuousness"))
             /\ Has(arg.item, "Noise") =>
                  Stat("noise") = RoundHalfUp(NoiseTimes100(arg.item))
             /\ Has(arg.item, "Visibility") =>
                  Stat("visibility") = RoundHalfUp(FiftyPlus50Times(arg.item, "Visibility"))
             /\ arg.item = R_scenario =>
                  Get(ret.v, "stats") = (K("weight") :> DividedBy10(23)) @@ (K("attack") :> 100)
                                          @@ (K("attackModSlash") :> Quarter(3))
                                          @@ (K("attackSlash") :> 75)

\* C14 where round_up_half is the round half up of the claim and no
\* conversion raises: the records without Attack "inf" whose rounded
\* attribute is not the numeral a little under 0.005
C14_AwayFromTheBugs ==
    (RoundedStatCase /\ ~(Has(arg.item, "Attack") /\ Get(arg.item, "Attack") = S_inf)
        /\ (\A n \in ROUNDED_ATTRIBUTES : Has(arg.item, n) => Get(arg.item, n) # S_under_0_005))
    => (~ret.exc /\ C14_StatDerivations)

\* the stats object of the record processed, empty when the record has none
StatsOf(processed) == IF Has(processed, "stats") THEN Get(processed, "stats") ELSE EmptyMap

\* the call has returned for a record with Attack or an attack modifier
AttackCase ==
    /\ pc = "ret_process_single_item"
    /\ \E n \in {"Attack", "AttackModSlash", "AttackModSmash", "AttackModStab"} :
          Has(arg.item, n)

\* stats has attackX and attackModX exactly when the record has Attack and
\* AttackModX; attackX is then the round half up of attack times the
\* modifier, and attackModX the number the text of AttackModX denotes
AttackSubStat(x) ==
    LET stats == StatsOf(ret.v) IN
    /\ K("attack" \o x) \in DOMAIN stats
          <=> (Has(arg.item, "Attack") /\ Has(arg.item, "AttackMod" \o x))
    /\ K("attackMod" \o x) \in DOMAIN stats
          <=> (Has(arg.item, "Attack") /\ Has(arg.item, "AttackMod" \o x))
    /\ (Has(arg.item, "Attack") /\ Has(arg.item, "AttackMod" \o x)) =>
          /\ stats[K("attackMod" \o x)] = ParseFloat(Get(arg.item, "AttackMod" \o x))
          /\ stats[K("attack" \o x)]
                = RoundHalfUp(FMul(FloatOfInt(stats[K("attack")]), stats[K("attackMod" \o x)]))

\* C15: for X in Slash, Smash, Stab, stats contains attackX and attackModX
\* if and only if the record has both Attack and AttackModX; attackX is then
\* roundHalfUp(attack * modifier) and attackModX the modifier as supplied; no
\* stat appears in stats unless the record has its source attribute.
C15_AttackSubStats ==
    AttackCase =>
        IF ret.exc THEN FALSE
        ELSE /\ \A x \in {"Slash", "Smash", "Stab"} : AttackSubStat(x)
             /\ \A k \in DOMAIN StatsOf(ret.v) : Has(arg.item, STAT_SOURCE[k.name])

\* C15 where round_up_half is the round half up of the claim and no
\* conversion raises: the records without the text "inf" and without the
\* modifier next below 0.5
C15_AwayFromTheBugs ==
    (AttackCase /\ (\A k \in DOMAIN arg.item : arg.item[k] # S_inf)
        /\ (Has(arg.item, "AttackModSlash") => Get(arg.item, "AttackModSlash") # S_under_0_5))
    => (~ret.exc /\ C15_AttackSubStats)

-----------------------------------------------------------------------------
(* process_items on its own: the categories Weapons and Armor in either     *)
(* order, each a list of records with an Id and a DisplayName.              *)

\* the length of the longest list of a category
MaxSort == 2

\* "B", "a", "ab" and a capital E with an acute accent
SortNames == { Str(<<"B">>), Str(<<"a">>), Str(<<"a","b">>), << 201 >> }

SortRecord(id, name) == (K("Id") :> id) @@ (K("DisplayName") :> name)

\* the lists of at most MaxSort records with the ids in this order
SortLists(ids) ==
    UNION { { [j \in 1..n |-> SortRecord(ids[j], names[j])] : names \in [1..n -> SortNames] } :
            n \in 0..MaxSort }

SortInputs ==
    UNION { { << [k |-> "Weapons", val |-> List(w)], [k |-> "Armor", val |-> List(a)] >>,
              << [k |-> "Armor", val |-> List(a)], [k |-> "Weapons", val |-> List(w)] >> } :
            w \in SortLists(<<Str(<<"w","1">>), Str(<<"w","2">>), Str(<<"w","3">>)>>), a \in SortLists(<<Str(<<"a","1">>), Str(<<"a","2">>), Str(<<"a","3">>)>>) }

\* displayNames that are no text: the ints 10 and 9, the floats 9.0 and NaN,
\* None, and the list [1]
TypedSortNames ==
    { IntValue(10), IntValue(9), Opaque(PyFloat(FloatOfInt(9))), Opaque(PyFloat(NaN)),
      NoneValue, Opaque(PyList(<< PyInt(1) >>)) }

\* the lists of at most MaxSort records with the ids in this order and
\* displayNames of a pool
SortListsOf(ids, names) ==
    UNION { { [j \in 1..n |-> SortRecord(ids[j], chosen[j])] : chosen \in [1..n -> names] } :
            n \in 0..MaxSort }

\* Weapons before Armor, the displayNames of a pool
SortInputsOf(names) ==
    { << [k |-> "Weapons", val |-> List(w)], [k |-> "Armor", val |-> List(a)] >> :
        w \in SortListsOf(<<Str(<<"w","1">>), Str(<<"w","2">>), Str(<<"w","3">>)>>, names),
        a \in SortListsOf(<<Str(<<"a","1">>), Str(<<"a","2">>), Str(<<"a","3">>)>>, names) }

InitSort ==
    /\ pc = "call_process_items"
    /\ \/ \E filled \in SortInputs : arg = [filled_items |-> filled]
       \/ \E filled \in SortInputsOf(TypedSortNames) : arg = [filled_items |-> filled]
    /\ ret = << >>
    /\ removed_counts = NoCounts
    /\ NoMainState

CallProcessItems ==
    /\ pc = "call_process_items"
    /\ ret' = process_items(arg.filled_items)
    /\ pc' = "ret_process_items"
    /\ UNCHANGED << arg, removed_counts, mainVars >>

NextSort == CallProcessItems

SpecSort == InitSort /\ [][NextSort]_vars

\* a is before b in ordinal order: a proper prefix of b, or of the smaller
\* code point where the two first differ
OrdinalBefore(a, b) ==
    \E p \in 1..Len(b) :
        /\ p <= Len(a) + 1
        /\ \A q \in 1..(p - 1) : a[q] = b[q]
        /\ p = Len(a) + 1 \/ a[p] < b[p]

\* the ids of the input records in the order they are produced: category by
\* category, and by position inside the category
RECURSIVE ProducedIds(_)
ProducedIds(filled) ==
    IF filled = << >> THEN << >>
    ELSE [j \in 1..Len(Head(filled).val.items) |-> Get(Head(filled).val.items[j], "Id")]
             \o ProducedIds(Tail(filled))

\* the position at which the record with this id was produced
ProducedAt(id) ==
    CHOOSE p \in 1..Len(ProducedIds(arg.filled_items)) : ProducedIds(arg.filled_items)[p] = id

\* process_items has returned an array that is not empty
SortSucceeded == pc = "ret_process_items" /\ ret # << >>

\* the array has exactly one record per input record
OnePerInput ==
    /\ Len(ret) = Len(ProducedIds(arg.filled_items))
    /\ \A p \in 1..Len(ProducedIds(arg.filled_items)) :
          Cardinality({ i \in 1..Len(ret) :
                          Get(ret[i], "id") = ProducedIds(arg.filled_items)[p] }) = 1

\* the record at i, which is before the record at j, has the smaller
\* displayName in code point order, or the same and was produced first
OrdinalOrder(i, j) ==
    \/ OrdinalBefore(Get(ret[i], "displayName"), Get(ret[j], "displayName"))
    \/ /\ Get(ret[i], "displayName") = Get(ret[j], "displayName")
       /\ ProducedAt(Get(ret[i], "id")) < ProducedAt(Get(ret[j], "id"))

\* the same for two displayNames that are numbers, compared by value
NumericOrder(i, j) ==
    \/ FloatLess(NumberOf(Get(ret[i], "displayName")), NumberOf(Get(ret[j], "displayName")))
    \/ /\ NumberOf(Get(ret[i], "displayName")) = NumberOf(Get(ret[j], "displayName"))
       /\ ProducedAt(Get(ret[i], "id")) < ProducedAt(Get(ret[j], "id"))

\* every displayName of the array is a number that is not NaN
AllNumbers ==
    \A i \in 1..Len(ret) :
        /\ IsNumber(Get(ret[i], "displayName"))
        /\ NumberOf(Get(ret[i], "displayName")).kind # "nan"

-----------------------------------------------------------------------------
(* fill_weapon_items on its own: a Weapons list of records with or without  *)
(* a Class, with the taxonomy of the pipeline and with one in which two     *)
(* weapon types have the id 4.                                              *)

\* the length of the longest Weapons list
MaxWeapon == 3

WeaponRecord(id, class) == (K("Id") :> id) @@ (K("Class") :> class)

WeaponPool ==
    { WeaponRecord(Str(<<"w","1">>), Str(<<"4">>)), WeaponRecord(Str(<<"w","2">>), Str(<<"1","1">>)), WeaponRecord(Str(<<"w","3">>), Str(<<"-","1">>)),
      WeaponRecord(Str(<<"w","4">>), Str(<<"9","9">>)), WeaponRecord(Str(<<"w","5">>), Str(<<"0","4">>)), WeaponRecord(Str(<<"w","6">>), << >>),
      K("Id") :> Str(<<"w","7">>) }

\* the taxonomy with a second weapon type of id 4
D_two_longswords ==
    [DataOf(ITEM_CATEGORIES) EXCEPT
        !.weaponTypes = WEAPON_TYPES \o << [id |-> 4, name |-> Str(<<"s","e","c","o","n","d">>), uiSlot |-> 6] >>]

InitWeapon ==
    /\ pc = "call_fill_weapon_items"
    /\ \E items \in SeqUpTo(WeaponPool, MaxWeapon) :
       \E d \in {DataOf(ITEM_CATEGORIES), D_two_longswords} :
           arg = [filled_items |-> << [k |-> "Weapons", val |-> List(items)] >>, data |-> d]
    /\ ret = << >>
    /\ removed_counts = NoCounts
    /\ NoMainState

CallFillWeaponItems ==
    /\ pc = "call_fill_weapon_items"
    /\ ret' = fill_weapon_items(arg.filled_items, arg.data)
    /\ pc' = "ret_fill_weapon_items"
    /\ UNCHANGED << arg, removed_counts, mainVars >>

NextWeapon == CallFillWeaponItems

SpecWeapon == InitWeapon /\ [][NextWeapon]_vars

WeaponsIn == GetCat(arg.filled_items, "Weapons").items

WeaponsOut == GetCat(ret.v, "Weapons").items

\* the positions of the weapon types whose id, as a string, is the Class
TypesOfClass(class) ==
    { t \in 1..Len(arg.data.weaponTypes) : StrOfInt(arg.data.weaponTypes[t].id) = class }

\* the first of the weapon types of the Class
FirstTypeOfClass(class) ==
    arg.data.weaponTypes[CHOOSE t \in TypesOfClass(class) :
                            \A u \in TypesOfClass(class) : t <= u]

CLASSIFICATION_FIELDS ==
    { "weaponTypeId", "weaponTypeName", "uiSlotId", "uiSlotName", "categoryId", "categoryName" }

\* C17: a Weapons record with a Class gets the weaponTypeId and
\* weaponTypeName of the first weapon type whose id, as a string, equals the
\* Class; a record whose Class equals no weapon type id, or without a Class,
\* gets no weaponTypeId, weaponTypeName, uiSlot or category field, and stays
\* in the category.
C17_WeaponClassification ==
    pc = "ret_fill_weapon_items" =>
        /\ ~ret.exc
        /\ Len(WeaponsOut) = Len(WeaponsIn)
        /\ \A i \in 1..Len(WeaponsIn) :
              IF Has(WeaponsIn[i], "Class") /\ TypesOfClass(Get(WeaponsIn[i], "Class")) # {}
              THEN /\ Get(WeaponsOut[i], "weaponTypeId")
                        = IntValue(FirstTypeOfClass(Get(WeaponsIn[i], "Class")).id)
                   /\ Get(WeaponsOut[i], "weaponTypeName")
                        = FirstTypeOfClass(Get(WeaponsIn[i], "Class")).name
              ELSE /\ WeaponsOut[i] = WeaponsIn[i]
                   /\ \A n \in CLASSIFICATION_FIELDS : ~Has(WeaponsOut[i], n)

\* with two weapon types of id 4: a record of Class 4 is a longsword, a record
\* of Class 99 and a record without Class are as they were
C17_Witness ==
    /\ pc = "ret_fill_weapon_items"
    /\ arg.data = D_two_longswords
    /\ Len(WeaponsOut) = 3
    /\ WeaponsIn[1] = WeaponRecord(Str(<<"w","1">>), Str(<<"4">>))
    /\ Get(WeaponsOut[1], "weaponTypeName") = Str(<<"l","o","n","g","s","w","o","r","d">>)
    /\ WeaponsIn[2] = WeaponRecord(Str(<<"w","4">>), Str(<<"9","9">>)) /\ WeaponsOut[2] = WeaponsIn[2]
    /\ ~Has(WeaponsIn[3], "Class") /\ WeaponsOut[3] = WeaponsIn[3]

-----------------------------------------------------------------------------
(* fill_dice_items and the whole of fill_item_properties on a Die list,     *)
(* with the taxonomy of the pipeline and with one that has a category named *)
(* "dice".                                                                  *)

\* the length of the longest Die list
MaxDie == 3

DiePool ==
    { K("Id") :> Str(<<"d","1">>),
      (K("Id") :> Str(<<"d","2">>)) @@ (K("Name") :> Str(<<"d","i","e">>)),
      (K("Id") :> Str(<<"d","3">>)) @@ (K("SideWeights") :> Str(<<"1"," ","2">>)),
      (K("Id") :> Str(<<"d","4">>)) @@ (K("categoryName") :> Str(<<"o","l","d">>)) }

\* a taxonomy whose categories have one named "dice"
D_with_dice ==
    DataOf(ITEM_CATEGORIES \o << [id |-> 14, name |-> Str(<<"d","i","c","e">>), iconCategory |-> -1] >>)

InitDie ==
    /\ pc \in {"call_fill_dice_items", "call_fill_item_properties"}
    /\ \E items \in SeqUpTo(DiePool, MaxDie) :
       \E d \in {DataOf(ITEM_CATEGORIES), D_with_dice} :
           arg = [filled_items |-> << [k |-> "Die", val |-> List(items)] >>, data |-> d]
    /\ ret = << >>
    /\ removed_counts = NoCounts
    /\ NoMainState

CallFillDiceItems ==
    /\ pc = "call_fill_dice_items"
    /\ ret' = fill_dice_items(arg.filled_items, arg.data)
    /\ pc' = "ret_fill_dice_items"
    /\ UNCHANGED << arg, removed_counts, mainVars >>

CallFillItemProperties ==
    /\ pc = "call_fill_item_properties"
    /\ ret' = fill_item_properties(arg.filled_items, arg.data)
    /\ pc' = "ret_fill_item_properties"
    /\ UNCHANGED << arg, removed_counts, mainVars >>

NextDie ==
    \/ CallFillDiceItems
    \/ CallFillItemProperties

SpecDie == InitDie /\ [][NextDie]_vars

DiceIn == GetCat(arg.filled_items, "Die").items

DiceOut == GetCat(ret.v, "Die").items

\* every Die record of the result has the id and the name of one category of
\* the taxonomy, and the records are otherwise those of the input
DiceStamped ==
    /\ ~ret.exc /\ ~ret.none
    /\ Len(DiceOut) = Len(DiceIn)
    /\ \E c \in 1..Len(arg.data.categories) :
          \A i \in 1..Len(DiceIn) :
              DiceOut[i] = Put(Put(DiceIn[i], "categoryId", IntValue(arg.data.categories[c].id)),
                               "categoryName", arg.data.categories[c].name)

\* C18: with the taxonomy the pipeline supplies, every Die record is given the
\* categoryId and categoryName of the dice category, and the classification
\* stage reports success.
C18_DiceClassification ==
    (pc \in {"ret_fill_dice_items", "ret_fill_item_properties"} /\ arg.data = DataOf(ITEM_CATEGORIES))
        => DiceStamped

\* with a category named "dice" in the taxonomy the records are stamped with
\* it
C18_WithCategoryNamedDice ==
    (pc \in {"ret_fill_dice_items", "ret_fill_item_properties"} /\ arg.data = D_with_dice)
        => (DiceStamped /\ \A i \in 1..Len(DiceOut) : Get(DiceOut[i], "categoryId") = IntValue(14))

-----------------------------------------------------------------------------
(* fill_dice_badge_types on its own: a DiceBadge list of records with Type  *)
(* and SubType, with one of them or with neither, with the taxonomy of the  *)
(* pipeline and with one in which two badge types have the id 0.            *)

\* the length of the longest DiceBadge list
MaxBadge == 3

BadgeRecord(id, type, subtype) ==
    (K("Id") :> id) @@ (K("Type") :> type) @@ (K("SubType") :> subtype)

BadgePool ==
    { BadgeRecord(Str(<<"b","1">>), Str(<<"0">>), Str(<<"0">>)), BadgeRecord(Str(<<"b","2">>), Str(<<"2">>), Str(<<"1","0">>)), BadgeRecord(Str(<<"b","3">>), Str(<<"-","1">>), Str(<<"1","1">>)),
      BadgeRecord(Str(<<"b","4">>), Str(<<"7">>), Str(<<"1">>)), BadgeRecord(Str(<<"b","5">>), << >>, Str(<<"x">>)),
      (K("Id") :> Str(<<"b","6">>)) @@ (K("Type") :> Str(<<"1">>)),
      (K("Id") :> Str(<<"b","7">>)) @@ (K("SubType") :> Str(<<"2">>)),
      K("Id") :> Str(<<"b","8">>) }

\* the taxonomy with a second badge type of id 0
D_two_plumbs ==
    [DataOf(ITEM_CATEGORIES) EXCEPT
        !.diceBadges.types = DICE_BADGE_TYPES \o << [id |-> 0, name |-> Str(<<"s","e","c","o","n","d">>)] >>]

InitBadge ==
    /\ pc = "call_fill_dice_badge_types"
    /\ \E items \in SeqUpTo(BadgePool, MaxBadge) :
       \E d \in {DataOf(ITEM_CATEGORIES), D_two_plumbs} :
           arg = [filled_items |-> << [k |-> "DiceBadge", val |-> List(items)] >>, data |-> d]
    /\ ret = << >>
    /\ removed_counts = NoCounts
    /\ NoMainState

CallFillDiceBadgeTypes ==
    /\ pc = "call_fill_dice_badge_types"
    /\ ret' = fill_dice_badge_types(arg.filled_items, arg.data)
    /\ pc' = "ret_fill_dice_badge_types"
    /\ UNCHANGED << arg, removed_counts, mainVars >>

NextBadge == CallFillDiceBadgeTypes

SpecBadge == InitBadge /\ [][NextBadge]_vars

BadgesIn == GetCat(arg.filled_items, "DiceBadge").items

BadgesOut == GetCat(ret.v, "DiceBadge").items

\* the positions of the entries whose id, as a string, is the value
EntriesOf(types, value) == { t \in 1..Len(types) : StrOfInt(types[t].id) = value }

\* the name of the first entry whose id, as a string, is the value, "Unknown"
\* when there is none
NameOfFirst(types, value) ==
    IF EntriesOf(types, value) = {} THEN Str(<<"U","n","k","n","o","w","n">>)
    ELSE types[CHOOSE t \in EntriesOf(types, value) :
                  \A u \in EntriesOf(types, value) : t <= u].name

BADGE_FIELDS ==
    { "badgeTypeId", "badgeTypeName", "badgeSubTypeId", "badgeSubTypeName",
      "categoryId", "categoryName" }

\* C19: a DiceBadge record with Type and SubType has, after
\* fill_dice_badge_types, no Type and no SubType, badgeTypeId and
\* badgeSubTypeId equal to the former values, badgeTypeName and
\* badgeSubTypeName the name of the first entry whose id is the value as a
\* string or else "Unknown", and the id and name of the diceBadge category; a
\* record missing Type or SubType is left as it was, with no badge field and
\* no category field.
C19_BadgeClassification ==
    pc = "ret_fill_dice_badge_types" =>
        /\ ~ret.exc /\ ~ret.none
        /\ Len(BadgesOut) = Len(BadgesIn)
        /\ \A i \in 1..Len(BadgesIn) :
              IF Has(BadgesIn[i], "Type") /\ Has(BadgesIn[i], "SubType")
              THEN /\ ~Has(BadgesOut[i], "Type") /\ ~Has(BadgesOut[i], "SubType")
                   /\ Get(BadgesOut[i], "badgeTypeId") = Get(BadgesIn[i], "Type")
                   /\ Get(BadgesOut[i], "badgeSubTypeId") = Get(BadgesIn[i], "SubType")
                   /\ Get(BadgesOut[i], "badgeTypeName")
                        = NameOfFirst(arg.data.diceBadges.types, Get(BadgesIn[i], "Type"))
                   /\ Get(BadgesOut[i], "badgeSubTypeName")
                        = NameOfFirst(arg.data.diceBadges.subtypes, Get(BadgesIn[i], "SubType"))
                   /\ Get(BadgesOut[i], "categoryId") = IntValue(13)
                   /\ Get(BadgesOut[i], "categoryName") = Str(<<"d","i","c","e","B","a","d","g","e">>)
              ELSE /\ BadgesOut[i] = BadgesIn[i]
                   /\ \A n \in BADGE_FIELDS : ~Has(BadgesOut[i], n)

\* with two badge types of id 0: a record of Type 0 is a plumb badge, a record
\* whose Type and SubType are no ids of the taxonomy is named "Unknown" twice,
\* and a record with a Type only is as it was
C19_Witness ==
    /\ pc = "ret_fill_dice_badge_types"
    /\ arg.data = D_two_plumbs
    /\ Len(BadgesOut) = 3
    /\ BadgesIn[1] = BadgeRecord(Str(<<"b","1">>), Str(<<"0">>), Str(<<"0">>))
    /\ Get(BadgesOut[1], "badgeTypeName") = Str(<<"p","l","u","m","b">>)
    /\ Get(BadgesOut[1], "badgeSubTypeName") = Str(<<"H","e","a","d","s","t","a","r","t">>)
    /\ BadgesIn[2] = BadgeRecord(Str(<<"b","5">>), << >>, Str(<<"x">>))
    /\ Get(BadgesOut[2], "badgeTypeName") = Str(<<"U","n","k","n","o","w","n">>)
    /\ Get(BadgesOut[2], "badgeSubTypeName") = Str(<<"U","n","k","n","o","w","n">>)
    /\ BadgesIn[3] = (K("Id") :> Str(<<"b","6">>)) @@ (K("Type") :> Str(<<"1">>))
    /\ BadgesOut[3] = BadgesIn[3]

-----------------------------------------------------------------------------
(* The join through uiSlot and uiCategory: fill_armor_items on an Armor     *)
(* list and fill_weapon_items on a Weapons list, with the taxonomy of the   *)
(* pipeline and with one whose UI slots lack the slot of the melee weapons. *)

\* the length of the longest list
MaxJoin == 2

\* the taxonomy without the UI slot 23
D_dangling_slot ==
    [DataOf(ITEM_CATEGORIES) EXCEPT !.uiSlots = SelectSeq(UI_SLOTS, LAMBDA slot : slot.id # 23)]

JoinInputs ==
    { [pc |-> "call_fill_armor_items", filled_items |-> << [k |-> "Armor", val |-> List(items)] >>] :
        items \in SeqUpTo(ArmorPool, MaxJoin) }
    \cup
    { [pc |-> "call_fill_weapon_items", filled_items |-> << [k |-> "Weapons", val |-> List(items)] >>] :
        items \in SeqUpTo(WeaponPool, MaxJoin) }

InitJoin ==
    /\ \E in \in JoinInputs : \E d \in {DataOf(ITEM_CATEGORIES), D_dangling_slot} :
          /\ pc = in.pc
          /\ arg = [filled_items |-> in.filled_items, data |-> d]
    /\ ret = << >>
    /\ removed_counts = NoCounts
    /\ NoMainState

NextJoin ==
    \/ CallFillArmorItems
    \/ CallFillWeaponItems

SpecJoin == InitJoin /\ [][NextJoin]_vars

\* every uiSlot of an armor type or weapon type is the id of a UI slot, and
\* every uiCategory of a UI slot is the id of a category
ForeignKeysResolve(d) ==
    /\ \A t \in 1..Len(d.armorTypes) :
          \E u \in 1..Len(d.uiSlots) : d.uiSlots[u].id = d.armorTypes[t].uiSlot
    /\ \A t \in 1..Len(d.weaponTypes) :
          \E u \in 1..Len(d.uiSlots) : d.uiSlots[u].id = d.weaponTypes[t].uiSlot
    /\ \A u \in 1..Len(d.uiSlots) :
          \E c \in 1..Len(d.categories) : d.categories[c].id = d.uiSlots[u].uiCategory

JOIN_FIELDS == { "uiSlotId", "uiSlotName", "categoryId", "categoryName" }

\* the record has the four fields of the join that starts at the type
JoinedThrough(record, type) ==
    /\ \A n \in JOIN_FIELDS : Has(record, n)
    /\ Get(record, "uiSlotId") = IntValue(type.uiSlot)
    /\ \E u \in 1..Len(arg.data.uiSlots) :
          /\ arg.data.uiSlots[u].id = type.uiSlot
          /\ Get(record, "uiSlotName") = arg.data.uiSlots[u].name
          /\ Get(record, "categoryId") = IntValue(arg.data.uiSlots[u].uiCategory)
          /\ \E c \in 1..Len(arg.data.categories) :
                /\ arg.data.categories[c].id = arg.data.uiSlots[u].uiCategory
                /\ Get(record, "categoryName") = arg.data.categories[c].name

\* the armor record is joined through the armor type it was given
ArmorJoined(record) ==
    \E t \in 1..Len(arg.data.armorTypes) :
        /\ Get(record, "armorTypeId") = IntValue(arg.data.armorTypes[t].id)
        /\ JoinedThrough(record, arg.data.armorTypes[t])

\* C20: with a taxonomy in which every uiSlot and uiCategory resolves, an
\* armor or weapon record that is matched to a type receives uiSlotId,
\* uiSlotName, categoryId and categoryName: the uiSlot of the matched type,
\* the name of the UI slot with that id, the uiCategory of that UI slot and the
\* name of the category with that id; an unmatched record receives none of
\* the four.
C20_TwoHopJoin ==
    /\ (pc = "ret_fill_armor_items" /\ ForeignKeysResolve(arg.data)) =>
          /\ ~ret.exc
          /\ \A i \in 1..Len(ArmorIn) :
                IF Has(ArmorIn[i], "Clothing") /\ SomeFilterMatches(Get(ArmorIn[i], "Clothing"))
                THEN Has(ArmorOut[i], "armorTypeId") /\ ArmorJoined(ArmorOut[i])
                ELSE \A n \in JOIN_FIELDS : ~Has(ArmorOut[i], n)
    /\ (pc = "ret_fill_weapon_items" /\ ForeignKeysResolve(arg.data)) =>
          /\ ~ret.exc
          /\ \A i \in 1..Len(WeaponsIn) :
                IF Has(WeaponsIn[i], "Class") /\ TypesOfClass(Get(WeaponsIn[i], "Class")) # {}
                THEN JoinedThrough(WeaponsOut[i], FirstTypeOfClass(Get(WeaponsIn[i], "Class")))
                ELSE \A n \in JOIN_FIELDS : ~Has(WeaponsOut[i], n)

\* with the taxonomy of the pipeline a longsword is a melee weapon in the
\* slot weaponMelee, and the record of Class 99 beside it has none of the
\* four fields
C20_Witness ==
    /\ pc = "ret_fill_weapon_items"
    /\ ForeignKeysResolve(arg.data)
    /\ WeaponsIn = << WeaponRecord(Str(<<"w","1">>), Str(<<"4">>)), WeaponRecord(Str(<<"w","4">>), Str(<<"9","9">>)) >>
    /\ Get(WeaponsOut[1], "uiSlotId") = IntValue(23)
    /\ Get(WeaponsOut[1], "uiSlotName") = Str(<<"w","e","a","p","o","n","M","e","l","e","e">>)
    /\ Get(WeaponsOut[1], "categoryId") = IntValue(9)
    /\ Get(WeaponsOut[1], "categoryName") = Str(<<"m","e","l","e","e">>)
    /\ WeaponsOut[2] = WeaponsIn[2]

-----------------------------------------------------------------------------
(* remove_at_signs on its own, called on a value read from JSON and then on *)
(* its own result: a mapping of categories whose values are lists of at     *)
(* most MaxStrip mappings or single mappings, a list, a str and None; keys  *)
(* begin with no, one or two '@', keys of one mapping may differ in their   *)
(* leading '@' only, and a value of a mapping may be a mapping.             *)

\* the length of the longest list
MaxStrip == 2

\* '@@' before a key name
RawRawK(n) == [at |-> 2, name |-> n]

\* {"@Name": "a", "Name": "b"}
M_at_first == PyDict(<< Entry(RawK("Name"), PyStr(Str(<<"a">>))), Entry(K("Name"), PyStr(Str(<<"b">>))) >>)

\* {"Name": "b", "@Name": "a"}
M_at_last == PyDict(<< Entry(K("Name"), PyStr(Str(<<"b">>))), Entry(RawK("Name"), PyStr(Str(<<"a">>))) >>)

\* {"@@x": "1", "y": "2"}
M_two_at == PyDict(<< Entry(RawRawK("x"), PyStr(Str(<<"1">>))), Entry(K("y"), PyStr(Str(<<"2">>))) >>)

\* {"@Id": "a", "Id": "b", "@@Id": "c", "z": "d"}
M_three_ids ==
    PyDict(<< Entry(RawK("Id"), PyStr(Str(<<"a">>))), Entry(K("Id"), PyStr(Str(<<"b">>))),
              Entry(RawRawK("Id"), PyStr(Str(<<"c">>))), Entry(K("z"), PyStr(Str(<<"d">>))) >>)

\* {"@Id": "a", "Sub": {"@x": "1"}}
M_nested ==
    PyDict(<< Entry(RawK("Id"), PyStr(Str(<<"a">>))),
              Entry(K("Sub"), PyDict(<< Entry(RawK("x"), PyStr(Str(<<"1">>))) >>)) >>)

StripPool ==
    { PyDict(<< >>),
      PyDict(<< Entry(K("Id"), PyStr(Str(<<"1">>))) >>),
      PyDict(<< Entry(RawK("Id"), PyStr(Str(<<"1">>))), Entry(RawK("Name"), PyNone),
                Entry(K("Price"), PyStr(Str(<<"2">>))) >>),
      M_at_first, M_at_last, M_two_at, M_three_ids, M_nested,
      PyStr(Str(<<"@","s">>)) }

StripInputs ==
    { PyDict(<< Entry(K("Armor"), PyList(items)) >>) : items \in SeqUpTo(StripPool, MaxStrip) }
    \cup { PyDict(<< Entry(RawK("Armor"), PyList(<< a >>)), Entry(K("Die"), d) >>) :
             a \in StripPool, d \in StripPool }
    \cup { PyDict(<< Entry(RawK("Armor"), a), Entry(K("Armor"), d) >>) :
             a \in StripPool, d \in StripPool }
    \cup { PyList(items) : items \in SeqUpTo(StripPool, MaxStrip) }
    \cup { PyStr(Str(<<"@","s">>)), PyNone }

InitStrip ==
    /\ pc = "call_remove_at_signs"
    /\ \E obj \in StripInputs : arg = [obj |-> obj, once |-> << >>]
    /\ ret = << >>
    /\ removed_counts = NoCounts
    /\ NoMainState

CallRemoveAtSigns ==
    /\ pc = "call_remove_at_signs"
    /\ ret' = remove_at_signs(arg.obj)
    /\ pc' = "ret_remove_at_signs"
    /\ UNCHANGED << arg, removed_counts, mainVars >>

\* remove_at_signs called on what the first call returned
CallRemoveAtSignsAgain ==
    /\ pc = "ret_remove_at_signs"
    /\ arg' = [arg EXCEPT !.once = ret.v]
    /\ ret' = remove_at_signs(ret.v)
    /\ pc' = "ret_remove_at_signs_again"
    /\ UNCHANGED << removed_counts, mainVars >>

NextStrip ==
    \/ CallRemoveAtSigns
    \/ CallRemoveAtSignsAgain

SpecStrip == InitStrip /\ [][NextStrip]_vars

\* the key without one leading '@', the key itself when it begins with none
WithoutOneAtSign(k) == IF k.at > 0 THEN [at |-> k.at - 1, name |-> k.name] ELSE k

\* the entries of a mapping whose key has a given name
NamedAs(entries, name) == { i \in 1..Len(entries) : entries[i].k.name = name }

\* out is in with one leading '@' (all is FALSE) or every leading '@' (all is
\* TRUE) removed from the keys of its mappings.  One '@': a mapping has as
\* many entries as before, in the order they had, each value under the key so
\* renamed.  Every '@': a mapping has one entry for every key name of the
\* input, and its value comes from an input entry of that name.  A list has
\* the length of the input and every element is related to the element at its
\* place; another value is the value of the input.
RECURSIVE Related(_, _, _)
Related(in, out, all) ==
    IF in.t = "dict"
    THEN /\ out.t = "dict"
         /\ IF all
            THEN /\ \A j \in 1..Len(out.map) :
                       /\ out.map[j].k.at = 0
                       /\ NamedAs(out.map, out.map[j].k.name) = {j}
                       /\ \E i \in NamedAs(in.map, out.map[j].k.name) :
                             Related(in.map[i].val, out.map[j].val, all)
                 /\ \A i \in 1..Len(in.map) : NamedAs(out.map, in.map[i].k.name) # {}
            ELSE /\ Len(out.map) = Len(in.map)
                 /\ \A i \in 1..Len(in.map) :
                       /\ out.map[i].k = WithoutOneAtSign(in.map[i].k)
                       /\ Related(in.map[i].val, out.map[i].val, all)
    ELSE IF in.t = "list"
    THEN /\ out.t = "list"
         /\ Len(out.items) = Len(in.items)
         /\ \A i \in 1..Len(in.items) : Related(in.items[i], out.items[i], all)
    ELSE out = in

\* C21: in the output of remove_at_signs every key that began with '@' has a
\* single leading '@' removed ('@@x' becomes '@x', '@Name' becomes 'Name'),
\* the other keys are unchanged, and the output has the structure of the
\* input: the same nesting, lengths, order, number of entries of every
\* mapping and values.
C21_OneAtSignStripped ==
    pc = "ret_remove_at_signs" =>
        /\ ~ret.exc /\ ~ret.none
        /\ Related(arg.obj, ret.v, FALSE)

\* what remove_at_signs does: every leading '@' is removed, and of the keys
\* of a mapping that become the same key one value stays
C21_AllAtSignsStripped ==
    pc = "ret_remove_at_signs" =>
        /\ ~ret.exc /\ ~ret.none
        /\ Related(arg.obj, ret.v, TRUE)

\* C22: remove_at_signs(remove_at_signs(s)) == remove_at_signs(s)
C22_Idempotent ==
    pc = "ret_remove_at_signs_again" => (~ret.exc /\ ~ret.none /\ ret.v = arg.once)

\* the second call has returned for a list with a mapping whose key begins
\* with '@@' and a mapping whose keys 'Name' and '@Name' become the same key:
\* the first call left "x" and "y", and "Name" with the value of '@Name'
C22_Witness ==
    /\ pc = "ret_remove_at_signs_again"
    /\ arg.obj = PyDict(<< Entry(K("Armor"), PyList(<< M_two_at, M_at_last >>)) >>)
    /\ arg.once = PyDict(<< Entry(K("Armor"),
                              PyList(<< PyDict(<< Entry(K("x"), PyStr(Str(<<"1">>))),
                                                  Entry(K("y"), PyStr(Str(<<"2">>))) >>),
                                        PyDict(<< Entry(K("Name"), PyStr(Str(<<"a">>))) >>) >>)) >>)
    /\ ret.v = arg.once

-----------------------------------------------------------------------------
(* C23: the stages leave their inputs alone *)

\* the taxonomy tables of data.json: everything but the items main stores
TaxonomyTables(d) == [k \in DOMAIN d \ {"items"} |-> d[k]]

\* C23: upstream inputs are never mutated across stage boundaries: when
\* parse_items returns, the caller's combined_items and text_ui_items are as
\* they were; when fill_item_properties returns, the caller's parsed_items is
\* as it was (no classification field was added); when process_items returns,
\* the caller's filled_items is as it was; and the taxonomy tables of data
\* are as they were after each of the three.
C23_UpstreamUnmutated ==
    [][ /\ MainParseItems =>
              /\ combined_items' = combined_items
              /\ text_ui_items' = text_ui_items
        /\ MainFillItemProperties => parsed_items' = parsed_items
        /\ MainProcessItems => filled_items' = filled_items
        /\ (MainParseItems \/ MainFillItemProperties \/ MainProcessItems) =>
              TaxonomyTables(data') = TaxonomyTables(data) ]_vars

\* the three stages ran on a source with an excluded category, which
\* parse_items deleted from its copy, and fill_item_properties annotated an
\* armor record of its copy
C23_Witness ==
    /\ Ran("process_items")
    /\ HasCat(combined_items.map, K("Food")) /\ ~HasCat(parsed_items.v, "Food")
    /\ FilledInPlace(parsed_items.v, data) # parsed_items.v
    /\ "items" \in DOMAIN data

-----------------------------------------------------------------------------
(* The steps of parse_items from the condenser on, and parse_items as a     *)
(* whole, on collections whose Weapons category is absent or not the first. *)

R_order_torch == (K("Id") :> Str(<<"t">>)) @@ (K("Name") :> Str(<<"t","o","r","c","h">>))

\* a key whose Name is an empty child element
R_order_unnamed == (K("Id") :> Str(<<"n">>)) @@ (K("Name") :> NoneValue)

OrderInputs ==
    { die \o hood \o armor \o melee \o weapons \o missile \o key :
        die \in OptCat("Die", {CondList("Die", 1)}),
        hood \in AnyShape("Hood"),
        armor \in AnyShape("Armor"),
        melee \in OptCat("MeleeWeapon", {CondList("MeleeWeapon", 1),
                                         List(<< R_order_torch >>)}),
        weapons \in OptCat("Weapons", {CondList("Weapons", 1),
                                       Dict(CondRecord("Weapons", 1))}),
        missile \in OptCat("MissileWeapon", {CondList("MissileWeapon", 1)}),
        key \in OptCat("Key", {CondList("Key", 1), List(<< R_order_unnamed >>)}) }

InitOrder ==
    /\ pc \in {"call_condense_categories", "call_parse_items"}
    /\ \E c \in OrderInputs : arg = [parsed_items |-> c]
    /\ ret = << >>
    /\ removed_counts = NoCounts
    /\ NoMainState

\* parse_items: result = remove_items(parsed_items) on what condense_categories
\* returned, unless that was None
ThenRemoveItems ==
    /\ pc = "ret_condense_categories"
    /\ ~ret.none
    /\ \E r \in {RemoveItemsRun(ret.v)} :
           /\ ret' = IF r.exc THEN None ELSE Ok(r.v)
           /\ removed_counts' = IF r.exc THEN NoCounts ELSE r.counts
    /\ pc' = "ret_remove_items"
    /\ UNCHANGED << arg, mainVars >>

\* parse_items: result = add_display_names(parsed_items, ui_text) on what
\* remove_items returned, unless that was None
ThenAddDisplayNames ==
    /\ pc = "ret_remove_items"
    /\ ~ret.none
    /\ ret' = add_display_names(ret.v, EmptyMap)
    /\ pc' = "ret_add_display_names"
    /\ UNCHANGED << arg, removed_counts, mainVars >>

\* parse_items on the JSON object that holds the collection
CallParseItems ==
    /\ pc = "call_parse_items"
    /\ \E r \in {ParseItemsRun(RawCollection(arg.parsed_items), EmptyMap)} :
           /\ ret' = Ok(r.out)
           /\ removed_counts' = r.counts
    /\ pc' = "ret_parse_items"
    /\ UNCHANGED << arg, mainVars >>

NextOrder ==
    \/ CallCondenseCategories
    \/ ThenRemoveItems
    \/ ThenAddDisplayNames
    \/ CallParseItems

SpecOrder == InitOrder /\ [][NextOrder]_vars

\* Weapons is a key of c, and the first
WeaponsLeads(c) ==
    /\ c # << >>
    /\ c[1].k = "Weapons"
    /\ \A i \in 2..Len(c) : c[i].k # "Weapons"

\* two categories other than Weapons that are in both collections are in the
\* same order in both
OthersInOrder(in, out) ==
    \A i, j \in 1..Len(out) :
        (/\ i < j
         /\ out[i].k # "Weapons" /\ out[j].k # "Weapons"
         /\ HasCat(in, out[i].k) /\ HasCat(in, out[j].k))
            => CatIdx(in, out[i].k) < CatIdx(in, out[j].k)

\* C24: in the collection condense_categories returns, a Weapons category
\* exists and is the first entry, and the same holds after item filtering,
\* after display-name resolution and in every non-empty result of parse_items;
\* the other categories are in the order they had in the input.
C24_WeaponsFirst ==
    /\ (pc \in {"ret_condense_categories", "ret_remove_items", "ret_add_display_names"}
            /\ ~ret.none) =>
          (WeaponsLeads(ret.v) /\ OthersInOrder(arg.parsed_items, ret.v))
    /\ (pc = "ret_parse_items" /\ ret.v # << >>) =>
          (WeaponsLeads(ret.v) /\ OthersInOrder(arg.parsed_items, ret.v))

\* the input had Die before Armor, a Weapons category behind both and Key
\* last, and the three steps ran
C24_Witness ==
    /\ pc = "ret_add_display_names"
    /\ HasCat(arg.parsed_items, "Die") /\ HasCat(arg.parsed_items, "Armor")
    /\ HasCat(arg.parsed_items, "Weapons") /\ HasCat(arg.parsed_items, "Key")
    /\ Len(ret.v) = 4
    /\ ret.v[2].k = "Die" /\ ret.v[3].k = "Armor" /\ ret.v[4].k = "Key"

-----------------------------------------------------------------------------
(* fill_armor_items step by step: the loop over the Armor items and, inside *)
(* it, the loop over the armor types.  ret is the state of the loops:       *)
(* items the Armor list being annotated, i the number of items taken,       *)
(* t the number of armor types taken for item i, matched and filled_count   *)
(* the local variables of that name; assigned[k] lists the values written   *)
(* to armorTypeId of item k and examined[k] counts the armor types tried.   *)
(* An exception raised in the loops leaves the function: pc "armor_raised". *)

\* Armor elements that make the loops raise among elements that do not: a
\* Clothing that is None or a number, an element that is no mapping
OddArmorPool ==
    { ArmorRecord(Str(<<"a","1">>), Str(<<"C","o","i","f","C","a","p">>)),
      ArmorRecord(Str(<<"a","2">>), Str(<<"C","a","p">>)),
      ArmorRecord(Str(<<"a","3">>), Str(<<"H","o","o","d">>)),
      ArmorRecord(Str(<<"a","4">>), NoneValue),
      ArmorRecord(Str(<<"a","5">>), IntValue(5)),
      NonDict :> Str(<<"C","a","p">>) }

\* the taxonomy, and the taxonomy with filters that raise: the number 5 behind
\* the filter "Cap" of armor type 0, or no filters (None) for armor type 1
OddData ==
    { DataOf(ITEM_CATEGORIES),
      [DataOf(ITEM_CATEGORIES) EXCEPT
          !.armorTypes[2].filters = PyList(<< PyStr(Str(<<"C","a","p">>)), PyInt(5) >>)],
      [DataOf(ITEM_CATEGORIES) EXCEPT !.armorTypes[3].filters = PyNone] }

\* the state of the loops before the first item
ArmorLoopStart(items) ==
    [items |-> items, i |-> 0, t |-> 0, matched |-> FALSE, filled_count |-> 0,
     assigned |-> [k \in 1..Len(items) |-> << >>],
     examined |-> [k \in 1..Len(items) |-> 0]]

InitArmorLoop ==
    /\ pc = "armor_item_loop"
    /\ \/ \E items \in SeqUpTo(ArmorPool, MaxArmor) :
             /\ arg = [filled_items |-> << [k |-> "Armor", val |-> List(items)] >>,
                       data |-> DataOf(ITEM_CATEGORIES)]
             /\ ret = ArmorLoopStart(items)
       \/ \E items \in SeqUpTo(OddArmorPool, MaxArmor), d \in OddData :
             /\ arg = [filled_items |-> << [k |-> "Armor", val |-> List(items)] >>,
                       data |-> d]
             /\ ret = ArmorLoopStart(items)
    /\ removed_counts = NoCounts
    /\ NoMainState

\* mutant: the loop over the armor types goes on after a match
AfterArmorType_NoBreak(matched) == "armor_type_loop"

\* "if matched: break" at the end of the body of the loop over armor_types
AfterArmorType(matched) == IF matched THEN "armor_item_loop" ELSE "armor_type_loop"

\* "for i, armor_item in enumerate(...)": the next item, skipped when it has
\* no Clothing, or the end of the loop; "Clothing" in armor_item, the log
\* line or armor_item["Clothing"] raises for an item that is no mapping
ForArmorItem ==
    /\ pc = "armor_item_loop"
    /\ IF ret.i = Len(ret.items)
       THEN pc' = "armor_loops_done" /\ ret' = ret
       ELSE IF ~IsDict(ret.items[ret.i + 1])
       THEN pc' = "armor_raised" /\ ret' = [ret EXCEPT !.i = @ + 1]
       ELSE IF ~Has(ret.items[ret.i + 1], "Clothing")
       THEN pc' = pc /\ ret' = [ret EXCEPT !.i = @ + 1]
       ELSE /\ pc' = "armor_type_loop"
            /\ ret' = [ret EXCEPT !.i = @ + 1, !.t = 0, !.matched = FALSE]
    /\ UNCHANGED << arg, removed_counts, mainVars >>

\* the body of the loop over armor_types raises: the filters cannot be
\* iterated, clothing_value.startswith of a Clothing that is no str
\* (AttributeError, at the first filter), or startswith of a filter that is no
\* str before a match (TypeError)
BodyRaises(armor_type, clothing_value) ==
    IF IsStr(clothing_value) THEN TypeRaises(armor_type, clothing_value)
    ELSE NotIterable(armor_type) \/ FilterStrings(armor_type) # << >>

\* "for armor_type in armor_types": the body for the next armor type, the
\* prefix attempt and, "if not matched", the contains attempt; or the end of
\* the loop
ForArmorType ==
    /\ pc = "armor_type_loop"
    /\ IF ret.t = Len(arg.data.armorTypes)
       THEN pc' = "armor_item_loop" /\ ret' = ret
       ELSE IF BodyRaises(arg.data.armorTypes[ret.t + 1], Get(ret.items[ret.i], "Clothing"))
       THEN /\ pc' = "armor_raised"
            /\ ret' = [ret EXCEPT !.t = @ + 1, !.examined[ret.i] = @ + 1]
       ELSE LET armor_type == arg.data.armorTypes[ret.t + 1]
                clothing_value == Get(ret.items[ret.i], "Clothing")
                hit == \/ PrefixHit(armor_type, clothing_value)
                       \/ ~ret.matched /\ ContainsHit(armor_type, clothing_value)
            IN  /\ ret' = IF hit
                          THEN [ret EXCEPT
                                  !.t = @ + 1,
                                  !.items[ret.i] =
                                      JoinUiSlot(Put(Put(@, "armorTypeId", IntValue(armor_type.id)),
                                                     "armorTypeName", armor_type.name),
                                                 armor_type.uiSlot, arg.data),
                                  !.filled_count = @ + 1,
                                  !.matched = TRUE,
                                  !.assigned[ret.i] = Append(@, armor_type.id),
                                  !.examined[ret.i] = @ + 1]
                          ELSE [ret EXCEPT !.t = @ + 1, !.examined[ret.i] = @ + 1]
                /\ pc' = AfterArmorType(hit \/ ret.matched)
    /\ UNCHANGED << arg, removed_counts, mainVars >>

NextArmorLoop == ForArmorItem \/ ForArmorType

SpecArmorLoop == InitArmorLoop /\ [][NextArmorLoop]_vars

\* the items the loops are through with
ArmorItemsDone ==
    { k \in 1..ret.i : k < ret.i \/ pc \notin {"armor_type_loop", "armor_raised"} }

\* the first armor type, in taxonomy order, with a filter that is a prefix of
\* the Clothing value of item k or, having 3 or more characters, occurs in it
\* (0: the item has no Clothing text, or there is no such armor type)
FirstHit(k) ==
    IF /\ Has(arg.filled_items[1].val.items[k], "Clothing")
       /\ IsStr(Get(arg.filled_items[1].val.items[k], "Clothing"))
    THEN FirstIdx([n \in 1..Len(arg.data.armorTypes) |->
                     /\ arg.data.armorTypes[n].filters.t = "list"
                     /\ \E j \in 1..Len(arg.data.armorTypes[n].filters.items) :
                           /\ arg.data.armorTypes[n].filters.items[j].t = "str"
                           /\ \/ StartsWith(Get(arg.filled_items[1].val.items[k], "Clothing"),
                                            arg.data.armorTypes[n].filters.items[j].s)
                              \/ /\ Len(arg.data.armorTypes[n].filters.items[j].s) >= 3
                                 /\ Contains(Get(arg.filled_items[1].val.items[k], "Clothing"),
                                             arg.data.armorTypes[n].filters.items[j].s)])
    ELSE 0

\* C25: armor classification stops at the first hit in taxonomy order: the
\* assigned type is the first armor type with a filter that is a prefix of the
\* Clothing value or (3 or more characters) occurs in it, no later armor type
\* is examined, a matched record gets exactly one armorTypeId, and the match
\* counter goes up by exactly one per matched record.  The loops end as
\* fill_armor_items does: with the annotated list, or with an exception at a
\* record that has been given no armorTypeId.
C25_FirstHitInTaxonomyOrder ==
    /\ \A k \in ArmorItemsDone :
          IF FirstHit(k) # 0
          THEN /\ ret.assigned[k] = << arg.data.armorTypes[FirstHit(k)].id >>
               /\ Get(ret.items[k], "armorTypeId")
                     = IntValue(arg.data.armorTypes[FirstHit(k)].id)
               /\ ret.examined[k] = FirstHit(k)
          ELSE ret.assigned[k] = << >>
    /\ ret.filled_count = Cardinality({ k \in 1..ret.i : ret.assigned[k] # << >> })
    /\ \A k \in ArmorItemsDone : FirstHit(k) # 0 <=> ret.assigned[k] # << >>
    /\ pc = "armor_loops_done" =>
          fill_armor_items(arg.filled_items, arg.data) =
              Ok(<< [k |-> "Armor", val |-> List(ret.items)] >>)
    /\ pc = "armor_raised" =>
          (fill_armor_items(arg.filled_items, arg.data) = Raised /\ ret.assigned[ret.i] = << >>)

\* the loops ended on a "CoifCap", which the filter "Cap" of armor type 0
\* occurs in and the filter "CoifCap" of armor type 2 is a prefix of, and a
\* "Hood": both matched once
C25_Witness ==
    /\ pc = "armor_loops_done"
    /\ arg.filled_items[1].val.items =
           << ArmorRecord(Str(<<"a","1">>), Str(<<"C","o","i","f","C","a","p">>)),
              ArmorRecord(Str(<<"a","3">>), Str(<<"H","o","o","d">>)) >>
    /\ ret.assigned = << << 0 >>, << 4 >> >>
    /\ ret.filled_count = 2

-----------------------------------------------------------------------------
(* C26: what fix_alias leaves in the ItemAlias bucket *)

\* the alias records of the call that the claim has unresolved: no
\* SourceItemId, no Name, or a SourceItemId that is the Id of no record of a
\* non-alias category of the input (withName: of no such record with a Name)
Unresolved(aliases, withName) ==
    SelectSeq(aliases, LAMBDA a :
        \/ ~Has(a, "SourceItemId")
        \/ ~Has(a, "Name")
        \/ IdPositions(arg.parsed_items, Get(a, "SourceItemId"), withName) = {})

Reversed(s) == [i \in 1..Len(s) |-> s[Len(s) + 1 - i]]

\* the result of fix_alias on the input of the call with its alias records in
\* reverse order
ResultReversed ==
    fix_alias(SetCat(arg.parsed_items, "ItemAlias", List(Reversed(AliasIn)))).v

\* C26 as stated: after fix_alias the ItemAlias bucket holds, in original order
\* and unmodified, exactly the alias records that lack SourceItemId, lack Name,
\* or whose SourceItemId is the Id of no record of a non-alias category of the
\* input; aliases never chain; the order of the alias records does not matter.
C26_RemainderForAnySourceWithId ==
    AliasReturned =>
        /\ ~ret.none
        /\ GetCat(ret.v, "ItemAlias").items = Unresolved(AliasIn, FALSE)
        /\ GetCat(ResultReversed, "ItemAlias").items = Reversed(Unresolved(AliasIn, FALSE))

\* C26 (amended): when fix_alias returns a collection, the ItemAlias bucket
\* holds, in original order and unmodified, exactly the alias records that are
\* no mapping, lack SourceItemId, lack Name, or whose SourceItemId is, as a
\* dict key, the Id of no record that has a Name and sits in a list-valued
\* non-alias category of the input; an alias that names another
\* alias, or the Id a merged alias brought along, stays in the bucket; with the
\* alias records in reverse order the same records stay and the same merged
\* records are appended, in reverse order.
C26_UnresolvedRemainder ==
    AliasResolved =>
        /\ GetCat(ret.v, "ItemAlias").list
        /\ GetCat(ret.v, "ItemAlias").items = Unresolved(AliasIn, TRUE)
        /\ GetCat(ResultReversed, "ItemAlias").items = Reversed(Unresolved(AliasIn, TRUE))
        /\ \A ci \in 1..Len(arg.parsed_items) :
              (arg.parsed_items[ci].k # "ItemAlias" /\ arg.parsed_items[ci].val.list) =>
                  SubSeq(ResultReversed[ci].val.items,
                         Len(arg.parsed_items[ci].val.items) + 1,
                         Len(ResultReversed[ci].val.items)) = Reversed(AppendedTo(ci))

\* alias z (Id B1) of A2 was merged into MeleeWeapon, and alias w of B1, which
\* comes after it, stayed in the bucket
C26_Witness ==
    /\ AliasResolved
    /\ AliasIn = << (K("Id") :> Str(<<"B","1">>)) @@ (K("Name") :> Str(<<"z">>)) @@ (K("SourceItemId") :> Str(<<"A","2">>)),
                    (K("Name") :> Str(<<"w">>)) @@ (K("SourceItemId") :> Str(<<"B","1">>)) >>
    /\ Len(AppendedTo(1)) = 1
    /\ Get(AppendedTo(1)[1], "Id") = Str(<<"B","1">>)
    /\ GetCat(ret.v, "ItemAlias").items =
           << (K("Name") :> Str(<<"w">>)) @@ (K("SourceItemId") :> Str(<<"B","1">>)) >>

-----------------------------------------------------------------------------
(* C27: which records remove_items removes *)

\* text contains one of the words as they are written
AnyWordIn(words, text) == \E j \in 1..Len(words) : Contains(text, words[j])

\* a rule of the claim matches the record: its SubClass, written as a string,
\* is "5", or a text is on its blocklist; anyCase: the icon and UI name
\* blocklists are compared case-insensitively, as the Name blocklist is
RuleMatches(item, anyCase) ==
    \/ Has(item, "SubClass") /\ StrEquals(Get(item, "SubClass"), Str(<<"5">>))
    \/ \E j \in 1..Len(KEY_FILTERS) :
           Contains(Lower(Get(item, "Name")), Lower(KEY_FILTERS[j]))
    \/ IF anyCase
       THEN \E j \in 1..Len(ICON_FILTERS) :
                Contains(Lower(GetText(item, "IconId")), Lower(ICON_FILTERS[j]))
       ELSE AnyWordIn(ICON_FILTERS, GetText(item, "IconId"))
    \/ IF anyCase
       THEN \E j \in 1..Len(UI_NAME_FILTERS) :
                Contains(Lower(GetText(item, "UIName")), Lower(UI_NAME_FILTERS[j]))
       ELSE AnyWordIn(UI_NAME_FILTERS, GetText(item, "UIName"))

\* the records of a category list that the claim has retained, in order
Retained(items, anyCase) ==
    SelectSeq(items, LAMBDA item : ~(Has(item, "Name") /\ RuleMatches(item, anyCase)))

\* the result has the categories of the input, in order, every list category
\* holding the retained records of its input list and every other category
\* being as it was
FilteredAsClaimed(in, out, anyCase) ==
    /\ Len(out) = Len(in)
    /\ \A i \in 1..Len(in) :
          /\ out[i].k = in[i].k
          /\ IF in[i].val.list
             THEN out[i].val = List(Retained(in[i].val.items, anyCase))
             ELSE out[i].val = in[i].val

\* C27 as stated: remove_items removes a record if and only if it has a Name
\* and SubClass is "5", or Name contains case-insensitively one of "_empty",
\* "duel", "_broken", "torch", or IconId contains "trafficCone", or UIName
\* contains "_warning"; retained records keep content and order and no
\* category key is added or removed.
C27_RemovedIffRuleMatchesAsWritten ==
    pc = "ret_remove_items" =>
        (~ret.exc /\ FilteredAsClaimed(arg.parsed_items, ret.v, FALSE))

\* text contains one of the words, whatever the case of their letters
AnyCaseWordIn(words, text) ==
    \E j \in 1..Len(words) : Contains(Lower(text), Lower(words[j]))

\* the record has a Name and no SubClass of "5", and the first of its Name,
\* IconId and UIName that is not on its blocklist is no str: None, a number,
\* a bool, a list or a mapping, whose lower() does not exist
ReadsNoText(item) ==
    /\ Has(item, "Name")
    /\ ~(Has(item, "SubClass") /\ StrEquals(Get(item, "SubClass"), Str(<<"5">>)))
    /\ \/ ~IsStr(Get(item, "Name"))
       \/ /\ ~AnyCaseWordIn(KEY_FILTERS, Get(item, "Name"))
          /\ \/ ~IsStr(GetText(item, "IconId"))
             \/ /\ ~AnyCaseWordIn(ICON_FILTERS, GetText(item, "IconId"))
                /\ ~IsStr(GetText(item, "UIName"))

\* C27 (amended): as stated, with the IconId and UIName blocklists compared
\* case-insensitively too, when remove_items returns a collection; it returns
\* None instead exactly when a list category holds a record that has a Name
\* and no SubClass of "5" and whose Name, IconId or UIName is no str (None, a
\* number, a bool, a list, a mapping) with no blocklist matching an attribute
\* before it.
C27_RemovedIffRuleMatches ==
    pc = "ret_remove_items" =>
        IF \E i \in 1..Len(arg.parsed_items) :
               /\ arg.parsed_items[i].val.list
               /\ \E j \in 1..Len(arg.parsed_items[i].val.items) :
                      ReadsNoText(arg.parsed_items[i].val.items[j])
        THEN ret = None
        ELSE /\ ~ret.exc /\ ~ret.none
             /\ FilteredAsClaimed(arg.parsed_items, ret.v, TRUE)

\* of a record without a Name that has SubClass 5 and a blocked icon, and a
\* named record with the icon "TrafficCone_icon", the first was retained
C27_Witness ==
    /\ pc = "ret_remove_items"
    /\ ~ret.none
    /\ GetCat(arg.parsed_items, "Weapons").items =
           << (K("Id") :> Str(<<"F">>)) @@ (K("SubClass") :> Str(<<"5">>))
                  @@ (K("IconId") :> Str(<<"t","r","a","f","f","i","c","C","o","n","e">>)),
              FilterRecord(Str(<<"c","o","n","e">>),
                  K("IconId") :> Str(<<"T","r","a","f","f","i","c","C","o","n","e","_","i","c","o","n">>)) >>
    /\ Len(GetCat(ret.v, "Weapons").items) = 1
    /\ ~Has(GetCat(ret.v, "Weapons").items[1], "Name")

-----------------------------------------------------------------------------
(* main stage by stage: the steps of parse_items are taken one at a time,   *)
(* each on the collection the step before it returned; ran lists the stages *)
(* started and raised the stages that logged an error.                      *)

InitStages ==
    /\ pc = "s02"
    /\ arg = << >> /\ ret = << >>
    /\ removed_counts = NoCounts
    /\ combined_items \in MainInputs
    /\ text_ui_items \in MainUiTexts
    /\ data = << >>
    /\ parsed_items = None /\ filled_items = None /\ items_array = None
    /\ exit_code = -1
    /\ ran = << >>
    /\ raised = {}

\* parse_items returns {}: main logs "Failed to parse items" and returns 1
ParseItemsFails ==
    /\ parsed_items' = Ok(<< >>)
    /\ pc' = "exit"
    /\ exit_code' = 1

\* parse_items up to "result = remove_at_signs(parsed_items)": {} is returned
\* for an empty source before a stage is started
StageRemoveAtSigns ==
    /\ pc = "s04"
    /\ IF combined_items.map = << >>
       THEN ParseItemsFails /\ ran' = ran
       ELSE /\ \E stripped \in {remove_at_signs(PyDict(KeptCategories(combined_items.map)))} :
                   parsed_items' = Ok(Collection(stripped.v))
            /\ pc' = "s04_fix_alias"
            /\ exit_code' = exit_code
            /\ ran' = Append(ran, "remove_at_signs")
    /\ UNCHANGED << arg, ret, removed_counts, combined_items, text_ui_items, data,
                    filled_items, items_array, raised >>

\* "result = fix_alias(parsed_items)" and the deletion of the ItemAlias
\* bucket; None: "return {}"
StageFixAlias ==
    /\ pc = "s04_fix_alias"
    /\ \E aliased \in {fix_alias(parsed_items.v)} :
           IF aliased.none
           THEN ParseItemsFails /\ raised' = raised \cup {"fix_alias"}
           ELSE /\ parsed_items' = Ok(DelCat(aliased.v, "ItemAlias"))
                /\ pc' = "s04_condense_categories"
                /\ exit_code' = exit_code
                /\ raised' = raised
    /\ ran' = Append(ran, "fix_alias")
    /\ UNCHANGED << arg, ret, removed_counts, combined_items, text_ui_items, data,
                    filled_items, items_array >>

\* "result = condense_categories(parsed_items)"; None: "return {}"
StageCondenseCategories ==
    /\ pc = "s04_condense_categories"
    /\ \E condensed \in {condense_categories(parsed_items.v)} :
           IF condensed.none
           THEN ParseItemsFails /\ raised' = raised \cup {"condense_categories"}
           ELSE /\ parsed_items' = condensed
                /\ pc' = "s04_remove_items"
                /\ exit_code' = exit_code
                /\ raised' = raised
    /\ ran' = Append(ran, "condense_categories")
    /\ UNCHANGED << arg, ret, removed_counts, combined_items, text_ui_items, data,
                    filled_items, items_array >>

\* "result = remove_items(parsed_items)"; None: "return {}"
StageRemoveItems ==
    /\ pc = "s04_remove_items"
    /\ \E filtered \in {RemoveItemsRun(parsed_items.v)} :
           IF filtered.exc
           THEN /\ ParseItemsFails
                /\ raised' = raised \cup {"remove_items"}
                /\ removed_counts' = removed_counts
           ELSE /\ parsed_items' = Ok(filtered.v)
                /\ removed_counts' = filtered.counts
                /\ pc' = "s04_add_display_names"
                /\ exit_code' = exit_code
                /\ raised' = raised
    /\ ran' = Append(ran, "remove_items")
    /\ UNCHANGED << arg, ret, combined_items, text_ui_items, data,
                    filled_items, items_array >>

\* "result = add_display_names(parsed_items, ui_text)" and the end of
\* parse_items: {} when the step returned None, when a category has no len,
\* and when no item remains
StageAddDisplayNames ==
    /\ pc = "s04_add_display_names"
    /\ \E named \in {add_display_names(parsed_items.v, text_ui_items)} :
           IF named.none
           THEN ParseItemsFails /\ raised' = raised \cup {"add_display_names"}
           ELSE IF LenRaises(named.v)
           THEN ParseItemsFails /\ raised' = raised \cup {"parse_items"}
           ELSE IF TotalItems(named.v) = 0
           THEN ParseItemsFails /\ raised' = raised
           ELSE /\ parsed_items' = named
                /\ pc' = "s05"
                /\ exit_code' = exit_code
                /\ raised' = raised
    /\ ran' = Append(ran, "add_display_names")
    /\ UNCHANGED << arg, ret, removed_counts, combined_items, text_ui_items, data,
                    filled_items, items_array >>

NextStages ==
    \/ MainInitDataJson
    \/ MainGetXml
    \/ StageRemoveAtSigns
    \/ StageFixAlias
    \/ StageCondenseCategories
    \/ StageRemoveItems
    \/ StageAddDisplayNames
    \/ MainFillItemProperties
    \/ MainProcessItems
    \/ MainExtractIcons

SpecStages == InitStages /\ [][NextStages]_vars

\* key normalization, alias resolution, category condensing, item filtering,
\* display-name resolution, type classification, stat projection, and the
\* icon extraction that follows them in main
STAGES ==
    << "remove_at_signs", "fix_alias", "condense_categories", "remove_items",
       "add_display_names", "fill_item_properties", "process_items", "extract_icons" >>

IsPrefix(s, t) == Len(s) <= Len(t) /\ SubSeq(t, 1, Len(s)) = s

\* the stages that ran are the first stages of the fixed order, each once,
\* and data holds items only when stat projection has returned a non-empty
\* array
InFixedOrder ==
    /\ IsPrefix(ran, STAGES)
    /\ "items" \in DOMAIN data =>
          /\ Ran("process_items")
          /\ items_array # Ok(<< >>)
          /\ data["items"] = items_array.v

\* C28: in every run the stages execute strictly in the order key
\* normalization, alias resolution, category condensing, item filtering,
\* display-name resolution, type classification, stat projection, each after
\* the one before it has returned and none twice; no stage runs after an
\* earlier stage reported failure; items are written into data.json only
\* after stat projection returned a non-empty array.
C28_StageOrdering ==
    [][ /\ InFixedOrder'
        /\ raised # {} => ran' = ran ]_vars

\* what holds of C28: the fixed order, and no stage after a stage that
\* returned an empty result or None
C28_FixedOrder ==
    /\ InFixedOrder
    /\ pc = "s05" => parsed_items = Ok(parse_items(combined_items, text_ui_items))
    /\ Ran("fill_item_properties") => ~parsed_items.none /\ parsed_items.v # << >>
    /\ Ran("process_items") => ~filled_items.none /\ filled_items.v # << >>
    /\ Ran("extract_icons") => ~items_array.none /\ items_array.v # << >>

-----------------------------------------------------------------------------
(* fill_item_properties on collections with armor, weapons and dice, under  *)
(* the repository's taxonomy, under one that has a category named "dice",   *)
(* and under one that has "dice" and lacks "diceBadge".                     *)

D_dice_without_badge ==
    DataOf(SelectSeq(ITEM_CATEGORIES, LAMBDA c : c.name # Str(<<"d","i","c","e","B","a","d","g","e">>))
               \o << [id |-> 14, name |-> Str(<<"d","i","c","e">>), iconCategory |-> -1] >>)

PartialInputs ==
    { armor \o weapons \o die :
        armor \in OptCat("Armor",
                    {List(s) : s \in SeqUpTo({ArmorRecord(Str(<<"a","2">>), Str(<<"C","a","p">>)),
                                              ArmorRecord(Str(<<"a","3">>), Str(<<"H","o","o","d">>))}, 2)}),
        weapons \in OptCat("Weapons", {List(<< WeaponRecord(Str(<<"w","1">>), Str(<<"4">>)) >>)}),
        die \in OptCat("Die", {List(s) : s \in SeqUpTo(DiePool, 1)}) }

InitPartial ==
    /\ pc = "call_fill_item_properties"
    /\ \E items \in PartialInputs :
       \E d \in {DataOf(ITEM_CATEGORIES), D_with_dice, D_dice_without_badge} :
           arg = [filled_items |-> items, data |-> d]
    /\ ret = << >>
    /\ removed_counts = NoCounts
    /\ NoMainState

NextPartial == CallFillItemProperties

SpecPartial == InitPartial /\ [][NextPartial]_vars

HasCategoryNamed(d, name) == \E i \in 1..Len(d.categories) : d.categories[i].name = name

\* the collection with the armor and weapon annotations
ArmorAndWeaponsFilled ==
    fill_weapon_items(fill_armor_items(arg.filled_items, arg.data).v, arg.data).v

\* C29: when the dice step reports failure (no category named "dice") the
\* function returns the collection with the armor and weapon annotations made,
\* and when the dice-badge step reports failure (no category named
\* "diceBadge") the collection with the armor, weapon and dice annotations
\* made: a non-empty collection, not None or an empty value.
C29_PartialResultReturned ==
    (pc = "ret_fill_item_properties" /\ arg.filled_items # << >>) =>
        /\ ~HasCategoryNamed(arg.data, Str(<<"d","i","c","e">>)) =>
              /\ ~ret.none
              /\ ret.v = ArmorAndWeaponsFilled
              /\ ret.v # << >>
        /\ (HasCategoryNamed(arg.data, Str(<<"d","i","c","e">>)) /\ ~HasCategoryNamed(arg.data, Str(<<"d","i","c","e","B","a","d","g","e">>))) =>
              /\ ~ret.none
              /\ ret.v = fill_dice_items(ArmorAndWeaponsFilled, arg.data).v
              /\ ret.v # << >>

\* what the code does: in both cases the function returns None, the value the
\* failed step returned
C29_NoneReturned ==
    (pc = "ret_fill_item_properties" /\ arg.filled_items # << >>) =>
        (ret = None <=> (~HasCategoryNamed(arg.data, Str(<<"d","i","c","e">>))
                            \/ ~HasCategoryNamed(arg.data, Str(<<"d","i","c","e","B","a","d","g","e">>))))

-----------------------------------------------------------------------------
(* C30: what never reaches the output *)

\* the records of the list-valued categories of c whose key is in ks
RECURSIVE RecordsWhere(_, _)
RecordsWhere(c, ks) ==
    IF c = << >> THEN {}
    ELSE (IF Head(c).k \in ks /\ Head(c).val.list
          THEN { Head(c).val.items[i] : i \in 1..Len(Head(c).val.items) }
          ELSE {})
         \cup RecordsWhere(Tail(c), ks)

\* the source collection with the '@' of its keys removed
SourceItems == Collection(StripAtSigns(combined_items))

CategoryKeys(c) == { c[i].k : i \in 1..Len(c) }

\* the alias records of the source
SourceAliases == RecordsWhere(SourceItems, {"ItemAlias"})

\* the Ids of the records an alias can name: those with an Id and a Name in a
\* category that is neither ItemAlias nor one of the excluded categories
SourceIds ==
    { Get(r, "Id") :
        r \in { q \in RecordsWhere(SourceItems,
                                   CategoryKeys(SourceItems)
                                       \ (item_classes_to_remove \cup {"ItemAlias"})) :
                    Has(q, "Id") /\ Has(q, "Name") } }

\* the alias records alias resolution leaves unresolved
LeftUnresolved ==
    { a \in SourceAliases :
        \/ ~Has(a, "SourceItemId")
        \/ ~Has(a, "Name")
        \/ Get(a, "SourceItemId") \notin SourceIds }

\* record r carries every attribute of alias record a
ComesFrom(r, a) == \A k \in DOMAIN a : k \in DOMAIN r /\ r[k] = a[k]

\* C30: every non-empty result of parse_items has no ItemAlias category and
\* none of the eleven excluded categories; no alias record left unresolved
\* (no SourceItemId, no Name, or a SourceItemId that names no record of a
\* category that is kept, a record of an excluded category being no source)
\* is in a category of the result or in the final items array.
C30_NothingUnresolvedOrExcluded ==
    /\ (Ran("parse_items") /\ parsed_items.v # << >>) =>
          /\ ~HasCat(parsed_items.v, "ItemAlias")
          /\ CategoryKeys(parsed_items.v) \cap item_classes_to_remove = {}
          /\ \A r \in RecordsWhere(parsed_items.v, CategoryKeys(parsed_items.v)) :
                /\ ~Has(r, "SourceItemId")
                /\ \A a \in LeftUnresolved : ~ComesFrom(r, a)
                /\ \A f \in RecordsWhere(SourceItems, item_classes_to_remove) :
                      ~(Has(f, "Id") /\ Has(r, "Id") /\ Get(r, "Id") = Get(f, "Id"))
    /\ (Ran("process_items") /\ items_array.v # << >>) =>
          \A i \in 1..Len(items_array.v) :
              /\ \A a \in LeftUnresolved :
                    Has(a, "Name") => items_array.v[i][K("name")] # Get(a, "Name")
              /\ \A f \in RecordsWhere(SourceItems, item_classes_to_remove) :
                    Has(f, "Id") => items_array.v[i][K("id")] # Get(f, "Id")

\* a run with a Food category, an alias of the Food record and an alias
\* without a SourceItemId produced a non-empty result and an items array
C30_Witness ==
    /\ Ran("process_items")
    /\ items_array.v # << >>
    /\ parsed_items.v # << >>
    /\ HasCat(SourceItems, "Food")
    /\ HasCat(SourceItems, "ItemAlias")
    /\ Cardinality(LeftUnresolved) = 2

=============================================================================
